---- MODULE Spec2Model ----
(***************************************************************************)
(* TChannel (node, v2): one channel, its peer table and its connections.   *)
(* The remote ends, the sockets, the timers, the clock and the application *)
(* (callers of send/addPeer/quit/register, endpoint handlers) are the      *)
(* environment.  Every handler of src/index.js is an operator from a state *)
(* record S = [conns, peers, chan, log] to a state record; an action       *)
(* applies one handler to the current state and commits the result.        *)
(* S.log collects what the handler did to the outside world during the     *)
(* step: frames handed to socket.write, sinks (callbacks) invoked, events  *)
(* emitted, handlers started, the exception thrown.                        *)
(***************************************************************************)
EXTENDS Integers, Sequences, FiniteSets, TLC

(* ------------------------------ bounds --------------------------------- *)
\* connection objects the channel ever creates (dialed or accepted)
MaxConns == 2
\* the clock (channel.now) runs from 0 to MaxTime
MaxTime == 2
\* width of the frame id counter, scaled down from 32 bits
IdBits == 2
\* calls of TChannelConnection.send, CallRequest frames dispatched and
\* calls of register, over the life of the channel (see Workloads)
MaxSends == 3
MaxCalls == 2
MaxRegisters == 2
\* channel option serverTimeoutDefault the channel is constructed with
serverTimeoutDefault == 1
\* items the sender writes in one run, and bytes appended to an inflated
\* frame
MaxItems == 2
MaxTrailing == 2

(* ------------------------- program constants --------------------------- *)
reqTimeoutDefault == 5000
VERSION == 2
CodeOK == 0
CodeTimeout == 1
CodeAppException == 6
ChecksumNone == 0
ChecksumFarmHash32 == 2

\* nextFrameId reduces modulo 0xffffffff = 2^32 - 1; here 2^IdBits - 1
FrameIdModulus == (2 ^ IdBits) - 1

ConnIds == 1 .. MaxConns

\* What the environment asks of the channel in one run: a client that
\* sends; a server that is called; a server whose endpoint is registered
\* again; a node that both sends and is called; a node with several
\* connections.
Workloads ==
    {[conns |-> 1, sends |-> MaxSends, calls |-> 0, regs |-> 0],
     [conns |-> 1, sends |-> 0, calls |-> MaxCalls, regs |-> 1],
     [conns |-> 1, sends |-> 0, calls |-> 1, regs |-> MaxRegisters],
     [conns |-> 1, sends |-> 1, calls |-> 1, regs |-> 1],
     [conns |-> MaxConns, sends |-> 0, calls |-> 0, regs |-> 0]}
Times == 0 .. MaxTime

\* the channel's own host:port, the hosts it dials, and what an init frame
\* may announce as host_port
LocalHostPort == "A"
DestHosts == {"A", "B"}
NullName == "null"
AnnouncedHostPorts == {"A", "B"}
PeerKeys == DestHosts \cup AnnouncedHostPorts
\* remote address of an accepted socket (ip:ephemeral port)
AcceptAddrs == {"A", "X"}

\* inputs of the application and of the remote end
OptionTimeouts == {0, 1}
Endpoints == {"echo"}
\* the k-th call of register passes the function HandlerFns[k]
HandlerFns == <<"h1", "h2", "h3">>
Arg1s == {"echo", "missing"}
SendArg1s == {"echo"}
Arg2s == {"a2"}
Arg3s == {"a3"}
RecvIds == 0 .. (FrameIdModulus - 1)
RecvCodes == {CodeOK, CodeTimeout, CodeAppException}
\* the <<frame id, checksum type>> of the CallRequest frames received
RecvCalls == {<<0, ChecksumNone>>, <<1, ChecksumFarmHash32>>}
\* sizes below 16 a frame header may declare
SmallSizes == {0, 1, 4, 15}

(* ------------------------------ values --------------------------------- *)
Null == [t |-> "null"]
Str(s) == [t |-> "str", v |-> s]
Error(m) == [t |-> "err", message |-> m]

EmptyMap == [x \in {} |-> 0]
MapPut(f, k, v) == [x \in (DOMAIN f) \cup {k} |-> IF x = k THEN v ELSE f[x]]
MapDel(f, K) == [x \in (DOMAIN f) \ K |-> f[x]]

Min(X) == CHOOSE x \in X : \A y \in X : x <= y

RECURSIVE SortedSeq(_)
\* Object.keys of a table whose keys are integers: ascending order
SortedSeq(X) == IF X = {} THEN <<>> ELSE <<Min(X)>> \o SortedSeq(X \ {Min(X)})

(* ------------------------ wire: buffers and fields --------------------- *)
\* A buffer is a sequence of bytes; offsets count from 0 as in the source.
\* buffer.slice(start, end)
slice(buffer, start, end) == SubSeq(buffer, start + 1, end)

fill(byte, n) == [i \in 1 .. n |-> byte]

\* the one element of a set of one element: binds a value computed once
Only(S) == CHOOSE x \in S : TRUE

NoError == [type |-> "none"]

\* the [err, offset, value] triple every reader returns
Result(err, offset, value) == [err |-> err, offset |-> offset, value |-> value]

\* read.want: an error unless n bytes remain at offset
want(n, buffer, offset) ==
    IF Len(buffer) - offset < n
    THEN [type |-> "short-read", remaining |-> Len(buffer) - offset,
          expected |-> n]
    ELSE NoError

RECURSIVE readUIntBE(_, _, _)
\* buffer.readUIntBE(offset, n): the n bytes at offset, most significant first
readUIntBE(buffer, offset, n) ==
    IF n = 0 THEN 0
    ELSE readUIntBE(buffer, offset, n - 1) * 256 + buffer[offset + n]

RECURSIVE writeUIntBE(_, _)
\* write.UInt8, write.UInt16BE, write.UInt32BE: the n bytes of value
writeUIntBE(value, n) ==
    IF n = 0 THEN <<>>
    ELSE Append(writeUIntBE(value \div 256, n - 1), value % 256)

\* read.UInt8, read.UInt16BE, read.UInt32BE
read_UInt(n, buffer, offset) ==
    IF want(n, buffer, offset) # NoError
    THEN Result(want(n, buffer, offset), offset, 0)
    ELSE Result(NoError, offset + n, readUIntBE(buffer, offset, n))

\* read.fixed(n): the next n bytes
read_fixed(n, buffer, offset) ==
    IF want(n, buffer, offset) # NoError
    THEN Result(want(n, buffer, offset), offset, <<>>)
    ELSE Result(NoError, offset + n, slice(buffer, offset, offset + n))

\* read.buf1 and read.buf2: a k-byte length, then that many bytes
read_buf(k, buffer, offset) ==
    Only({IF len.err # NoError THEN Result(len.err, offset, <<>>)
          ELSE read_fixed(len.value, buffer, len.offset) :
             len \in {read_UInt(k, buffer, offset)}})

\* write.buf1 and write.buf2
write_buf(k, bytes) == writeUIntBE(Len(bytes), k) \o bytes

(* ----------------------------- wire: checksum -------------------------- *)
ChecksumCRC32 == 1
RECURSIVE digest(_, _)
\* the digest of a byte string written in csum:4; stands for crc32 and
\* farmhash32, and is kept below 2^24 so that the products stay in range
digest(bytes, h) ==
    IF bytes = <<>> THEN h
    ELSE digest(Tail(bytes), (h * 31 + Head(bytes) + 1) % (2 ^ 24))

\* Checksum(type): a checksum object of the type, not yet computed
Checksum(type) == [type |-> type, val |-> 0]

\* csum.update(arg1, arg2, arg3)
Checksum_update(csum, arg1, arg2, arg3) ==
    IF csum.type = ChecksumNone THEN [csum EXCEPT !.val = 0]
    ELSE [csum EXCEPT !.val = digest(arg1 \o arg2 \o arg3, csum.type)]

\* csum.verify(arg1, arg2, arg3): an error on any mismatch
Checksum_verify(csum, arg1, arg2, arg3) ==
    Only({IF good.val = csum.val THEN NoError
          ELSE [type |-> "checksum", expected |-> csum.val,
                actual |-> good.val] :
             good \in {Checksum_update(csum, arg1, arg2, arg3)}})

\* csum.write(): csumtype:1 (csum:4){0,1}
Checksum_write(csum) ==
    IF csum.type = ChecksumNone THEN <<csum.type>>
    ELSE <<csum.type>> \o writeUIntBE(csum.val, 4)

\* Checksum.read
Checksum_read(buffer, offset) ==
    Only({IF type.err # NoError THEN Result(type.err, offset, Checksum(0))
          ELSE IF type.value = ChecksumNone
               THEN Result(NoError, type.offset, Checksum(ChecksumNone))
          ELSE IF type.value \notin {ChecksumCRC32, ChecksumFarmHash32}
               THEN Result([type |-> "invalid-checksum", value |-> type.value],
                           offset, Checksum(0))
          ELSE Only({IF val.err # NoError
                     THEN Result(val.err, type.offset, Checksum(0))
                     ELSE Result(NoError, val.offset,
                                 [type |-> type.value, val |-> val.value]) :
                        val \in {read_UInt(4, buffer, type.offset)}}) :
             type \in {read_UInt(1, buffer, offset)}})

(* --------------------------- wire: read.series ------------------------- *)
RECURSIVE read_series(_, _, _, _)
\* one field of a body grammar, by the name of its reader
read_field(reader, buffer, offset) ==
    IF reader = "UInt8" THEN read_UInt(1, buffer, offset)
    ELSE IF reader = "UInt16BE" THEN read_UInt(2, buffer, offset)
    ELSE IF reader = "UInt32BE" THEN read_UInt(4, buffer, offset)
    ELSE IF reader = "fixed6" THEN read_fixed(6, buffer, offset)
    ELSE IF reader = "fixed24" THEN read_fixed(24, buffer, offset)
    ELSE IF reader = "buf1" THEN read_buf(1, buffer, offset)
    ELSE IF reader = "buf2" THEN read_buf(2, buffer, offset)
    ELSE IF reader = "pair2"
         THEN read_series(<<"buf2", "buf2">>, buffer, offset, <<>>)
    ELSE IF reader = "Checksum" THEN Checksum_read(buffer, offset)
    ELSE \* header.read: nh:1 (hk~1 hv~1){nh}
         Only({IF nh.err # NoError THEN Result(nh.err, offset, <<>>)
               ELSE Only({IF r.err # NoError THEN r
                          ELSE Result(NoError, r.offset,
                                      [i \in 1 .. nh.value |->
                                          <<r.value[2 * i - 1], r.value[2 * i]>>]) :
                             r \in {read_series([i \in 1 .. (2 * nh.value) |-> "buf1"],
                                                buffer, nh.offset, <<>>)}}) :
                  nh \in {read_UInt(1, buffer, offset)}})

\* read.series(readers): the values of the fields in order, or the first
\* error
read_series(readers, buffer, offset, acc) ==
    IF readers = <<>> THEN Result(NoError, offset, acc)
    ELSE Only({IF r.err # NoError THEN Result(r.err, r.offset, acc)
               ELSE read_series(Tail(readers), buffer, r.offset,
                                Append(acc, r.value)) :
                  r \in {read_field(Head(readers), buffer, offset)}})

RECURSIVE write_pairs(_)
write_pairs(headers) ==
    IF headers = <<>> THEN <<>>
    ELSE write_buf(1, Head(headers)[1]) \o write_buf(1, Head(headers)[2])
         \o write_pairs(Tail(headers))

\* header.write: the count, then the pairs in order
header_write(headers) == <<Len(headers)>> \o write_pairs(headers)

(* ------------------------------ wire: bodies --------------------------- *)
TypeInitRequest == 1
TypeInitResponse == 2
TypeCallRequest == 3
TypeCallResponse == 4

\* the ASCII bytes of 'host_port' and of 'process_name'
InitKeys ==
    [host_port |-> <<104, 111, 115, 116, 95, 112, 111, 114, 116>>,
     process_name |-> <<112, 114, 111, 99, 101, 115, 115, 95, 110, 97, 109, 101>>]

emptyTracing == fill(0, 24)

\* InitRequest(version, hostPort, processName) and InitResponse(...)
InitBody(type, version, hostPort, processName) ==
    [type |-> type, version |-> version, hostPort |-> hostPort,
     processName |-> processName]

RECURSIVE InitRequest_pairs(_, _, _, _)
\* the loop of InitRequest.read over the pairs read; <<-1>> is a variable
\* never assigned, and a String is falsy when it is empty or never assigned
InitRequest_pairs(pairs, hostPort, processName, offset) ==
    IF pairs = <<>>
    THEN Result(NoError, offset, <<hostPort, processName>>)
    ELSE IF Head(pairs)[1] = InitKeys.host_port
    THEN IF hostPort \notin {<<-1>>, <<>>}
         THEN Result([type |-> "duplicate-init-header", name |-> "host_port"],
                     offset, <<>>)
         ELSE InitRequest_pairs(Tail(pairs), Head(pairs)[2], processName, offset)
    ELSE IF Head(pairs)[1] = InitKeys.process_name
    THEN IF processName \notin {<<-1>>, <<>>}
         THEN Result([type |-> "duplicate-init-header", name |-> "process_name"],
                     offset, <<>>)
         ELSE InitRequest_pairs(Tail(pairs), hostPort, Head(pairs)[2], offset)
    ELSE Result([type |-> "invalid-init-header", name |-> Head(pairs)[1]],
                offset, <<>>)

\* InitRequest.read, which is InitResponse.read too: version:2 (key~2 value~2){2}
InitRequest_read(Type, buffer, offset) ==
    Only({IF res.err # NoError THEN res
          ELSE Only({IF got.err # NoError THEN got
                     ELSE Result(NoError, res.offset,
                                 InitBody(Type, res.value[1], got.value[1],
                                          got.value[2])) :
                        got \in {InitRequest_pairs(Tail(res.value), <<-1>>,
                                                   <<-1>>, res.offset)}}) :
             res \in {read_series(<<"UInt16BE", "pair2", "pair2">>, buffer,
                                  offset, <<>>)}})

\* InitRequest.prototype.write, which is InitResponse.prototype.write too
InitRequest_write(body) ==
    writeUIntBE(body.version, 2)
    \o write_buf(2, InitKeys.host_port) \o write_buf(2, body.hostPort)
    \o write_buf(2, InitKeys.process_name) \o write_buf(2, body.processName)

\* CallRequest(ttl, tracing, service, headers, arg1, arg2, arg3, csum);
\* a null tracing is <<>> here and becomes emptyTracing
CallRequest(ttl, tracing, service, headers, arg1, arg2, arg3, csum) ==
    [type |-> TypeCallRequest, ttl |-> ttl,
     tracing |-> IF tracing = <<>> THEN emptyTracing ELSE tracing,
     service |-> service, headers |-> headers,
     arg1 |-> arg1, arg2 |-> arg2, arg3 |-> arg3, csum |-> csum]

\* CallRequest.read:
\* ttl:4 tracing:24 service~2 nh:1 (hk~1 hv~1){nh} arg1~2 arg2~2 arg3~2 csum
CallRequest_read(buffer, offset) ==
    Only({IF res.err # NoError THEN res
          ELSE Only({IF err # NoError THEN Result(err, res.offset, <<>>)
                     ELSE Result(NoError, res.offset,
                                 CallRequest(res.value[1], res.value[2],
                                             res.value[3], res.value[4],
                                             res.value[5], res.value[6],
                                             res.value[7], res.value[8])) :
                        err \in {Checksum_verify(res.value[8], res.value[5],
                                                 res.value[6], res.value[7])}}) :
             res \in {read_series(<<"UInt32BE", "fixed24", "buf2", "header",
                                    "buf2", "buf2", "buf2", "Checksum">>,
                                  buffer, offset, <<>>)}})

\* CallRequest.prototype.write
CallRequest_write(body) ==
    writeUIntBE(body.ttl, 4) \o body.tracing \o write_buf(2, body.service)
    \o header_write(body.headers) \o write_buf(2, body.arg1)
    \o write_buf(2, body.arg2) \o write_buf(2, body.arg3)
    \o Checksum_write(Checksum_update(body.csum, body.arg1, body.arg2,
                                      body.arg3))

\* CallResponse(code, headers, arg1, arg2, arg3, csum)
CallResponse(code, headers, arg1, arg2, arg3, csum) ==
    [type |-> TypeCallResponse, code |-> code, headers |-> headers,
     arg1 |-> arg1, arg2 |-> arg2, arg3 |-> arg3, csum |-> csum]

\* CallResponse.read: code:1 nh:1 (hk~1 hv~1){nh} arg1~2 arg2~2 arg3~2 csum
CallResponse_read(buffer, offset) ==
    Only({IF res.err # NoError THEN res
          ELSE Only({IF err # NoError THEN Result(err, res.offset, <<>>)
                     ELSE Result(NoError, res.offset,
                                 CallResponse(res.value[1], res.value[2],
                                              res.value[3], res.value[4],
                                              res.value[5], res.value[6])) :
                        err \in {Checksum_verify(res.value[6], res.value[3],
                                                 res.value[4], res.value[5])}}) :
             res \in {read_series(<<"UInt8", "header", "buf2", "buf2", "buf2",
                                    "Checksum">>, buffer, offset, <<>>)}})

\* CallResponse.prototype.write
CallResponse_write(body) ==
    <<body.code>> \o header_write(body.headers) \o write_buf(2, body.arg1)
    \o write_buf(2, body.arg2) \o write_buf(2, body.arg3)
    \o Checksum_write(Checksum_update(body.csum, body.arg1, body.arg2,
                                      body.arg3))

(* ------------------------------ wire: frame ---------------------------- *)
\* Frame(id, flags, body)
Frame(id, flags, body) == [id |-> id, flags |-> flags, body |-> body]

\* the body types entered in Frame.Types
FrameTypes ==
    {TypeInitRequest, TypeInitResponse, TypeCallRequest, TypeCallResponse}

\* BodyType.read(buffer, offset) of the type entered under the type code
BodyType_read(type, buffer, offset) ==
    IF type \in {TypeInitRequest, TypeInitResponse}
    THEN InitRequest_read(type, buffer, offset)
    ELSE IF type = TypeCallRequest THEN CallRequest_read(buffer, offset)
    ELSE CallResponse_read(buffer, offset)

\* self.body.write()
Body_write(body) ==
    IF body.type \in {TypeInitRequest, TypeInitResponse}
    THEN InitRequest_write(body)
    ELSE IF body.type = TypeCallRequest THEN CallRequest_write(body)
    ELSE CallResponse_write(body)

ExtraFrameDataError(length, trailing) ==
    [type |-> "extra-frame-data", length |-> length, trailing |-> trailing]

\* faulty variant of buildFrame that reports the whole body length as the
\* trailing count
buildFrame_WholeBody(length, id, flags, end, body, offset) ==
    IF offset < end
    THEN Result(ExtraFrameDataError(length, length - 16), offset, <<>>)
    ELSE Result(NoError, offset, Frame(id, flags, body))

\* buildFrame of Frame.read: the body was read up to offset, the frame ends
\* at end
buildFrame(length, id, flags, end, body, offset) ==
    IF offset < end
    THEN Result(ExtraFrameDataError(length, end - offset), offset, <<>>)
    ELSE Result(NoError, offset, Frame(id, flags, body))

\* headerRead of Frame.read: head holds size, id, type, flags and reserved;
\* offset is where the body starts
headerRead(head, buffer, offset) ==
    IF head[3] \notin FrameTypes
    THEN Result([type |-> "invalid-frame-type", typeNumber |-> head[3]],
                offset, <<>>)
    ELSE IF want(head[1] - 16, buffer, offset) # NoError
    THEN Result(want(head[1] - 16, buffer, offset), offset, <<>>)
    ELSE Only({IF body.err # NoError THEN Result(body.err, body.offset, <<>>)
               ELSE buildFrame(head[1], head[2], head[4],
                               offset + (head[1] - 16), body.value, body.offset) :
                  body \in {BodyType_read(head[3], buffer, offset)}})

\* Frame.read: size:4 id:4 type:1 flags:1 reserved:6, then the body
Frame_read(buffer, offset) ==
    Only({IF head.err # NoError THEN head
          ELSE headerRead(head.value, buffer, head.offset) :
             head \in {read_series(<<"UInt32BE", "UInt32BE", "UInt8", "UInt8",
                                     "fixed6">>, buffer, offset, <<>>)}})

\* faulty variant of Frame.prototype.write whose size field leaves out the
\* 16 bytes of the header
Frame_write_BodyLength(frame) ==
    Only({writeUIntBE(Len(body), 4) \o writeUIntBE(frame.id, 4)
          \o <<frame.body.type, frame.flags>> \o fill(0, 6) \o body :
             body \in {Body_write(frame.body)}})

\* Frame.prototype.write and toBuffer
Frame_write(frame) ==
    Only({writeUIntBE(16 + Len(body), 4) \o writeUIntBE(frame.id, 4)
          \o <<frame.body.type, frame.flags>> \o fill(0, 6) \o body :
             body \in {Body_write(frame.body)}})

(* --------------------------- wire: ChunkParser ------------------------- *)
\* new ChunkParser(FrameType)
ChunkParser == [buffer |-> <<>>, expecting |-> 4, state |-> "PendingLength"]

\* faulty variant of push that keeps only the newest chunk
ChunkParser_push_Replaces(p, chunk) == [p EXCEPT !.buffer = chunk]

\* ChunkParser.prototype.push
ChunkParser_push(p, chunk) ==
    IF Len(p.buffer) > 0 THEN [p EXCEPT !.buffer = @ \o chunk]
    ELSE [p EXCEPT !.buffer = chunk]

\* ChunkParser.prototype.shift: the parser after it, and the chunk returned
ChunkParser_shift(p) ==
    IF Len(p.buffer) < p.expecting
    THEN [parser |-> p, chunk |-> <<>>]
    ELSE IF Len(p.buffer) > p.expecting
    THEN [parser |-> [p EXCEPT !.buffer = slice(@, p.expecting, Len(@))],
          chunk |-> slice(p.buffer, 0, p.expecting)]
    ELSE [parser |-> [p EXCEPT !.buffer = <<>>], chunk |-> p.buffer]

\* ChunkParser.prototype.handleFrame: the event it emits; chunk is the
\* slice it was handed (err.buffer of an error event)
ChunkParser_handleFrame(chunk) ==
    Only({IF res.err = NoError /\ res.offset < Len(chunk)
          THEN [k |-> "error", chunk |-> chunk, offset |-> res.offset,
                err |-> [type |-> "short-chunk-read",
                         remaining |-> Len(chunk) - res.offset]]
          ELSE IF res.err # NoError
          THEN [k |-> "error", chunk |-> chunk, offset |-> res.offset,
                err |-> res.err]
          ELSE [k |-> "frame", chunk |-> chunk, frame |-> res.value] :
             res \in {Frame_read(chunk, 0)}})

RECURSIVE ChunkParser_loop(_, _)
\* The while loop of execute.  With expecting = 0 in Seeking, shift takes
\* nothing off the buffer, handleFrame reports an error for the empty
\* slice, and the loop is back where it was with the same buffer: it never
\* ends.  hung marks that outcome; out then holds the first of the errors.
ChunkParser_loop(p, out) ==
    IF Len(p.buffer) < p.expecting
    THEN [parser |-> p, out |-> out, hung |-> FALSE]
    ELSE IF p.state = "PendingLength"
    THEN Only({ChunkParser_loop(q, out) :
                  q \in {[p EXCEPT !.expecting = readUIntBE(p.buffer, 0, 4),
                                   !.state = "Seeking"]}})
    ELSE Only({IF p.expecting = 0
               THEN [parser |-> n.p, out |-> n.out, hung |-> TRUE]
               ELSE ChunkParser_loop(n.p, n.out) :
                  n \in {[p |-> [s.parser EXCEPT !.expecting = 4,
                                                 !.state = "PendingLength"],
                          out |-> Append(out, ChunkParser_handleFrame(s.chunk))] :
                            s \in {ChunkParser_shift(p)}}})

\* ChunkParser.prototype.execute
ChunkParser_execute(p, chunk) ==
    Only({ChunkParser_loop(q, <<>>) : q \in {ChunkParser_push(p, chunk)}})

(* --------------------------- wire: ChunkReader ------------------------- *)
\* new ChunkReader(FrameType, {frameLengthSize: n}); 0 stands for an
\* option that is not given
ChunkReader(frameLengthSize) ==
    [buffer |-> <<>>, state |-> "PendingLength",
     frameLengthSize |-> IF frameLengthSize # 0 THEN frameLengthSize ELSE 2,
     expecting |-> IF frameLengthSize # 0 THEN frameLengthSize ELSE 2]

\* ChunkReader.prototype.handleFrame with, for FrameType.struct, a length
\* of frameLengthSize bytes that counts itself and then the payload: an
\* 'error' event, or a frame pushed
ChunkReader_handleFrame(r, chunk) ==
    Only({IF length.err # NoError
          THEN [k |-> "error", chunk |-> chunk, err |-> length.err]
          ELSE [k |-> "frame", chunk |-> chunk,
                frame |-> [length |-> length.value,
                           payload |-> slice(chunk, r.frameLengthSize,
                                             Len(chunk))]] :
             length \in {read_UInt(r.frameLengthSize, chunk, 0)}})

\* the case PendingLength of _transform with a length of zero, in a faulty
\* variant that skips one byte
zeroLength_SkipsOne(r) ==
    [r EXCEPT !.buffer = slice(@, 1, Len(@)),
              !.expecting = r.frameLengthSize, !.state = "PendingLength"]

\* the case PendingLength of _transform with a length of zero: the length
\* field is shifted off the buffer
zeroLength(r) ==
    [r EXCEPT !.buffer = slice(@, r.frameLengthSize, Len(@)),
              !.expecting = r.frameLengthSize, !.state = "PendingLength"]

RECURSIVE ChunkReader_loop(_, _)
\* the while loop of _transform; err is what callback is called with
ChunkReader_loop(r, out) ==
    IF Len(r.buffer) < r.expecting
    THEN [reader |-> r, out |-> out, err |-> NoError]
    ELSE IF r.state = "PendingLength"
    THEN Only({ChunkReader_loop(n.r, n.out) :
                  n \in {IF readUIntBE(r.buffer, 0, r.frameLengthSize) = 0
                         THEN [r |-> zeroLength(r),
                               out |-> Append(out,
                                   [k |-> "error", chunk |-> <<>>,
                                    err |-> [type |-> "tchannel.zero-length-frame"]])]
                         ELSE [r |-> [r EXCEPT
                                        !.expecting =
                                            readUIntBE(r.buffer, 0, r.frameLengthSize),
                                        !.state = "Seeking"],
                               out |-> out]}})
    ELSE IF r.expecting = 0
    THEN [reader |-> r, out |-> out,
          err |-> [type |-> "tchannel.broken-reader-state", state |-> r.state,
                   expecting |-> r.expecting, avail |-> Len(r.buffer)]]
    ELSE Only({ChunkReader_loop(n.r, n.out) :
                  n \in {[r |-> [r EXCEPT !.buffer = slice(@, r.expecting, Len(@)),
                                          !.expecting = r.frameLengthSize,
                                          !.state = "PendingLength"],
                          out |-> Append(out,
                              ChunkReader_handleFrame(r,
                                  slice(r.buffer, 0, r.expecting)))]}})

\* ChunkReader.prototype._transform
ChunkReader_transform(r, chunk) ==
    Only({ChunkReader_loop(q, <<>>) : q \in {[r EXCEPT !.buffer = @ \o chunk]}})

(* --------------------- wire: a sender, a socket, a reader -------------- *)
\* What is written to the socket in one run: frames the sender encodes,
\* and material no encoder produces.
Ascii == [A |-> <<65>>, B |-> <<66>>, echo |-> <<101, 99, 104, 111>>]

WireFrames ==
    {Frame(1, 0, InitBody(TypeInitRequest, VERSION, Ascii.A, Ascii.echo)),
     Frame(1, 0, InitBody(TypeInitResponse, VERSION, Ascii.B, <<>>)),
     Frame(2, 0, CallRequest(1, <<>>, Ascii.B, <<>>, Ascii.echo, Ascii.A, <<>>,
                             Checksum(ChecksumFarmHash32))),
     Frame(0, 1, CallResponse(CodeOK, << <<Ascii.A, Ascii.B>> >>, Ascii.echo,
                              <<>>, Ascii.B, Checksum(ChecksumNone))),
     Frame(258, 0, CallResponse(CodeAppException, <<>>, Ascii.A, Ascii.A, <<>>,
                                Checksum(ChecksumCRC32)))}

\* the two pairs of an Init body as a peer may write them: the required
\* keys, a key twice (after a value, and after an empty value), and a key
\* the grammar does not know
InitPairs ==
    {<< <<InitKeys.host_port, Ascii.A>>, <<InitKeys.process_name, Ascii.echo>> >>,
     << <<InitKeys.host_port, Ascii.A>>, <<InitKeys.host_port, Ascii.B>> >>,
     << <<InitKeys.host_port, <<>> >>, <<InitKeys.host_port, Ascii.B>> >>,
     << <<InitKeys.process_name, <<>> >>, <<InitKeys.process_name, Ascii.echo>> >>,
     << <<InitKeys.host_port, Ascii.A>>, <<Ascii.echo, Ascii.B>> >>}

\* what a parser is fed: frames; Init frames with the pairs of InitPairs;
\* CallResponse frames with the size field raised by n and n bytes
\* appended; 16-byte headers that declare a size below 16
ParserItems ==
    {[k |-> "frame", frame |-> f] : f \in WireFrames}
    \cup {[k |-> "pairs", type |-> t, pairs |-> ps] :
             t \in {TypeInitRequest, TypeInitResponse}, ps \in InitPairs}
    \cup {[k |-> "extra", frame |-> f, n |-> MaxTrailing] :
             f \in {g \in WireFrames : g.body.type = TypeCallResponse}}
    \cup {[k |-> "small", size |-> s, id |-> 1, type |-> TypeCallResponse] :
             s \in SmallSizes}

\* what a reader whose length field has n bytes is fed: payloads under a
\* length that counts itself, and a length of zero
ReaderItems ==
    {[k |-> "blob", payload |-> p] : p \in {<<7>>, <<0, 0>>, <<1, 2, 3>>}}
    \cup {[k |-> "zero"]}

\* the bytes the sender writes for an item; n is the width of the length
\* field of the reader
ItemBytes(item, n) ==
    IF item.k = "frame" THEN Frame_write(item.frame)
    ELSE IF item.k = "extra"
    THEN Only({writeUIntBE(Len(bytes) + item.n, 4) \o slice(bytes, 4, Len(bytes))
               \o fill(170, item.n) : bytes \in {Frame_write(item.frame)}})
    ELSE IF item.k = "pairs"
    THEN Only({writeUIntBE(16 + Len(body), 4) \o writeUIntBE(1, 4)
               \o <<item.type, 0>> \o fill(0, 6) \o body :
                  body \in {writeUIntBE(VERSION, 2)
                            \o write_buf(2, item.pairs[1][1])
                            \o write_buf(2, item.pairs[1][2])
                            \o write_buf(2, item.pairs[2][1])
                            \o write_buf(2, item.pairs[2][2])}})
    ELSE IF item.k = "small"
    THEN writeUIntBE(item.size, 4) \o writeUIntBE(item.id, 4)
         \o <<item.type, 0>> \o fill(0, 6)
    ELSE IF item.k = "blob"
    THEN writeUIntBE(n + Len(item.payload), n) \o item.payload
    ELSE fill(0, n)

\* a run writes a first item and then up to MaxItems - 1 of the followers
Scripts(Items, Rest) ==
    UNION {{<<i>> \o t : i \in Items, t \in [1 .. n -> Rest]} :
              n \in 0 .. (MaxItems - 1)}

NoWire ==
    [unit |-> "none", script |-> <<>>, sent |-> <<>>, socket |-> <<>>,
     delivered |-> <<>>, width |-> 0, m |-> ChunkParser, out |-> <<>>,
     hung |-> FALSE]

WireStarts ==
    {[NoWire EXCEPT !.unit = "parser", !.script = s, !.width = 4] :
        s \in Scripts(ParserItems,
                         {i \in ParserItems :
                             /\ i.k = "frame"
                             /\ i.frame.body.type
                                    \in {TypeInitResponse, TypeCallResponse}})}
    \cup {[NoWire EXCEPT !.unit = "reader", !.script = s, !.width = n,
                         !.m = ChunkReader(IF n = 2 THEN 0 ELSE n)] :
             s \in Scripts(ReaderItems, ReaderItems), n \in {1, 2, 4}}

(* ------------------------------ state ---------------------------------- *)
VARIABLES conns, peers, chan, now, last, wire, link

vars == <<conns, peers, chan, now, last, wire, link>>

\* a slot no connection object has been constructed in
NoConn ==
    [exists |-> FALSE, direction |-> "none", remoteAddr |-> "none",
     remoteName |-> NullName, closing |-> FALSE, timer |-> FALSE,
     lastSentFrameId |-> 0, lastTimeoutTime |-> 0,
     inOps |-> EmptyMap, inPending |-> 0,
     outOps |-> EmptyMap, outPending |-> 0,
     handlers |-> EmptyMap,
     sock |-> "none", resetListeners |-> <<>>, socketCloseListeners |-> 0,
     quitListeners |-> 0]

\* What a handler did during its step.  out: in program order, the frames
\* handed to socket.write ("write"), the sinks of outbound operations
\* invoked ("call"), the events emitted ("emit"), the endpoint handlers
\* started ("run"), the outbound operations stored in outOps ("enrol") and
\* the calls of socket.destroy and socket.end; threw: the exception that
\* ended the handler; logged: the errors handed to the logger.  The
\* variable last keeps out of the step just taken.
EmptyLog == [out |-> <<>>, threw |-> "none", logged |-> <<>>]

Cur == [conns |-> conns, peers |-> peers, chan |-> chan, log |-> EmptyLog]

Effects(log) == log.out

\* some operation record holds a start time
Pending(cs) ==
    \E c \in ConnIds : cs[c].outOps # EmptyMap \/ cs[c].inOps # EmptyMap

\* The clock is read only to stamp op.start, to take now - op.start and to
\* make lastTimeoutTime non-zero, so its value means nothing while no
\* operation is pending: the model then restarts it at 0.
Settle(S) ==
    /\ conns' = S.conns
    /\ peers' = S.peers
    /\ chan' = S.chan
    /\ last' = Effects(S.log)
    /\ now' = IF Pending(S.conns) THEN now ELSE 0

Commit(S) == Settle(S) /\ UNCHANGED <<wire, link>>

(* -------------------------- effects on the log ------------------------- *)
socket_write(S, c, frame) ==
    [S EXCEPT !.log.out = Append(@, [k |-> "write", conn |-> c, frame |-> frame])]

\* op.callback(err, a, b) of the outbound operation enrolled under id
op_callback(S, c, id, op, err, a, b) ==
    [S EXCEPT !.log.out =
        Append(@, [k |-> "call", conn |-> c, id |-> id, start |-> op.start,
                   err |-> err, arg2 |-> a, arg3 |-> b])]

\* conn 0: the event is emitted by the channel
emit(S, c, name) ==
    [S EXCEPT !.log.out = Append(@, [k |-> "emit", conn |-> c, name |-> name])]

throw(S, what) == [S EXCEPT !.log.threw = what]

(* ----------------------------- peer table ------------------------------ *)
\* position of the first occurrence of c in list, 0 when absent (indexOf)
indexOf(list, c) ==
    IF \E i \in 1 .. Len(list) : list[i] = c
    THEN Min({i \in 1 .. Len(list) : list[i] = c})
    ELSE 0

splice(list, index) ==
    [i \in 1 .. (Len(list) - 1) |-> IF i < index THEN list[i] ELSE list[i + 1]]

getPeer(S, hostPort) ==
    IF Len(S.peers[hostPort]) > 0 THEN S.peers[hostPort][1] ELSE 0

removePeer(S, hostPort, c) ==
    LET list == S.peers[hostPort]
        index == indexOf(list, c)
    IN IF index = 0 THEN S
       ELSE [S EXCEPT !.peers[hostPort] = splice(list, index)]

\* faulty variant of setPeer that appends whatever the direction
setPeer_Append(S, hostPort, c) ==
    IF hostPort = LocalHostPort THEN throw(S, "refusing to set self peer")
    ELSE [S EXCEPT !.peers[hostPort] = Append(@, c)]

\* setPeer throws for the channel's own hostPort; out connections go to the
\* head of the list, in connections to the tail
setPeer(S, hostPort, c) ==
    IF hostPort = LocalHostPort THEN throw(S, "refusing to set self peer")
    ELSE IF S.conns[c].direction = "out"
         THEN [S EXCEPT !.peers[hostPort] = <<c>> \o @]
         ELSE [S EXCEPT !.peers[hostPort] = Append(@, c)]

RECURSIVE FlattenPeers(_, _)
FlattenPeers(P, keys) ==
    IF keys = {} THEN <<>>
    ELSE LET k == CHOOSE x \in keys : TRUE
         IN P[k] \o FlattenPeers(P, keys \ {k})

\* every connection of every list, a connection once per occurrence
getPeers(S) == FlattenPeers(S.peers, PeerKeys)

(* ------------------------- connection: timers -------------------------- *)
nextFrameId(lastSentFrameId) == (lastSentFrameId + 1) % FrameIdModulus

startTimeoutTimer(S, c) == [S EXCEPT !.conns[c].timer = TRUE]

clearTimeoutTimer(S, c) == [S EXCEPT !.conns[c].timer = FALSE]

(* -------------------------- connection: reset -------------------------- *)
RECURSIVE onConnectionReset(_, _, _)
\* the once('reset') listeners addPeer attached, in attachment order
onConnectionReset(S, c, hostPorts) ==
    IF hostPorts = <<>> THEN S
    ELSE onConnectionReset(removePeer(S, Head(hostPorts), c), c, Tail(hostPorts))

RECURSIVE onConnectionSocketClose(_, _)
\* the once('socketClose') listeners addPeer attached: each forwards the
\* event to the channel
onConnectionSocketClose(S, n) ==
    IF n = 0 THEN S
    ELSE onConnectionSocketClose(emit(S, 0, "socketClose"), n - 1)

RECURSIVE eachOutOp(_, _, _, _)
\* resetAll's walk over the outOps keys: delete, then call the sink with err
eachOutOp(S, c, keys, err) ==
    IF keys = <<>> THEN S
    ELSE LET id == Head(keys)
             op == S.conns[c].outOps[id]
             S1 == [S EXCEPT !.conns[c].outOps = MapDel(@, {id})]
         IN eachOutOp(op_callback(S1, c, id, op, err, Null, Null), c, Tail(keys), err)

\* faulty variant of resetAll that lacks the early return on closing
resetAll_Unguarded(S, c, err) ==
    LET outOpKeys == SortedSeq(DOMAIN S.conns[c].outOps)
        S1 == clearTimeoutTimer([S EXCEPT !.conns[c].closing = TRUE], c)
        S2 == onConnectionReset(emit(S1, c, "reset"), c,
                                S1.conns[c].resetListeners)
        S3 == [S2 EXCEPT !.conns[c].resetListeners = <<>>,
                         !.conns[c].inOps = EmptyMap]
        S4 == eachOutOp(S3, c, outOpKeys, err)
        S5 == [S4 EXCEPT !.conns[c].inPending = 0, !.conns[c].outPending = 0]
        S6 == onConnectionSocketClose(emit(S5, c, "socketClose"),
                                      S5.conns[c].socketCloseListeners)
    IN [S6 EXCEPT !.conns[c].socketCloseListeners = 0]

resetAll(S, c, err) ==
    IF S.conns[c].closing THEN S
    ELSE LET outOpKeys == SortedSeq(DOMAIN S.conns[c].outOps)
             S1 == [S EXCEPT !.conns[c].closing = TRUE]
             S2 == clearTimeoutTimer(S1, c)
             S3 == onConnectionReset(emit(S2, c, "reset"), c,
                                     S2.conns[c].resetListeners)
             S4 == [S3 EXCEPT !.conns[c].resetListeners = <<>>,
                              !.conns[c].inOps = EmptyMap]
             S5 == eachOutOp(S4, c, outOpKeys, err)
             S6 == [S5 EXCEPT !.conns[c].inPending = 0,
                              !.conns[c].outPending = 0]
             S7 == onConnectionSocketClose(emit(S6, c, "socketClose"),
                                           S6.conns[c].socketCloseListeners)
         IN [S7 EXCEPT !.conns[c].socketCloseListeners = 0]

onSocketErr(S, c, err) ==
    IF ~S.conns[c].closing THEN resetAll(S, c, err) ELSE S

(* ----------------------- connection: init frames ----------------------- *)
InitRequestFrame(id) ==
    [type |-> "InitRequest", id |-> id, flags |-> 0, version |-> VERSION,
     hostPort |-> LocalHostPort]

InitResponseFrame(id) ==
    [type |-> "InitResponse", id |-> id, flags |-> 0, version |-> VERSION,
     hostPort |-> LocalHostPort]

sendInitRequest(S, c) ==
    LET id == nextFrameId(S.conns[c].lastSentFrameId)
        S1 == [S EXCEPT !.conns[c].lastSentFrameId = id]
    IN socket_write(S1, c, InitRequestFrame(id))

sendInitResponse(S, c) ==
    LET id == nextFrameId(S.conns[c].lastSentFrameId)
        S1 == [S EXCEPT !.conns[c].lastSentFrameId = id]
    IN socket_write(S1, c, InitResponseFrame(id))

\* new TChannelConnection(channel, socket, direction, remoteAddr) in slot c
TChannelConnection(S, c, direction, remoteAddr) ==
    IF remoteAddr = LocalHostPort
    THEN throw(S, "refusing to create self connection")
    ELSE LET S1 == [S EXCEPT !.conns[c] =
                       [NoConn EXCEPT !.exists = TRUE,
                                      !.direction = direction,
                                      !.remoteAddr = remoteAddr,
                                      !.sock = "open"]]
             S2 == IF direction = "out" THEN sendInitRequest(S1, c) ELSE S1
         IN startTimeoutTimer(S2, c)

\* addPeer(hostPort, connection) for an existing connection c
addPeer(S, hostPort, c) ==
    IF hostPort = LocalHostPort THEN throw(S, "refusing to add self peer")
    ELSE LET S1 == [S EXCEPT
                      !.conns[c].resetListeners = Append(@, hostPort),
                      !.conns[c].socketCloseListeners = @ + 1]
         IN setPeer(S1, hostPort, c)

\* addPeer(hostPort) without a connection: dials one in the free slot c
addPeerDial(S, hostPort, c) ==
    IF hostPort = LocalHostPort THEN throw(S, "refusing to add self peer")
    ELSE addPeer(TChannelConnection(S, c, "out", hostPort), hostPort, c)

\* faulty variant of handleInitRequest that sends no InitResponse
handleInitRequest_NoResponse(S, c, frame) ==
    IF S.conns[c].remoteName # NullName
    THEN resetAll(S, c, Error("duplicate init request"))
    ELSE LET S1 == [S EXCEPT !.conns[c].remoteName = frame.hostPort]
             S2 == addPeer(S1, frame.hostPort, c)
         IN IF S2.log.threw # "none" THEN S2
            ELSE emit(S2, 0, "identified")

handleInitRequest(S, c, frame) ==
    IF S.conns[c].remoteName # NullName
    THEN resetAll(S, c, Error("duplicate init request"))
    ELSE LET S1 == [S EXCEPT !.conns[c].remoteName = frame.hostPort]
             S2 == addPeer(S1, frame.hostPort, c)
         IN IF S2.log.threw # "none" THEN S2
            ELSE sendInitResponse(emit(S2, 0, "identified"), c)

\* faulty variant of handleInitResponse that accepts a second InitResponse
handleInitResponse_Unguarded(S, c, frame) ==
    emit([S EXCEPT !.conns[c].remoteName = frame.hostPort], 0, "identified")

handleInitResponse(S, c, frame) ==
    IF S.conns[c].remoteName # NullName
    THEN resetAll(S, c, Error("duplicate init response"))
    ELSE emit([S EXCEPT !.conns[c].remoteName = frame.hostPort], 0, "identified")

(* ----------------------- connection: outbound -------------------------- *)
\* an identity for a new operation object: the least number no live
\* operation object of the connection carries
NewUid(used) == Min({u \in 1 .. (Cardinality(used) + 1) : u \notin used})

\* new TChannelClientOp(frame, start, callback)
TChannelClientOp(reqBody, start) ==
    [start |-> start, timeout |-> reqBody.ttl, timedOut |-> FALSE]

CallRequestFrame(id, reqBody) ==
    [type |-> "CallRequest", id |-> id, flags |-> 0, ttl |-> reqBody.ttl,
     arg1 |-> reqBody.arg1, arg2 |-> reqBody.arg2, arg3 |-> reqBody.arg3,
     csum |-> reqBody.csum]

\* TChannelConnection.prototype.send; the statement self.pendingCount++
\* touches a field nothing else reads and is left out
TChannelConnection_send(S, c, reqBody) ==
    LET conn == S.conns[c]
        id == nextFrameId(conn.lastSentFrameId)
        op == TChannelClientOp(reqBody, now)
        S1 == [S EXCEPT !.conns[c].lastSentFrameId = id,
                        !.conns[c].outOps = MapPut(@, id, op),
                        !.chan.sent = @ + 1,
                        !.log.out =
                            Append(@, [k |-> "enrol", conn |-> c, id |-> id])]
    IN socket_write(S1, c, CallRequestFrame(id, reqBody))

buildRequest(timeout, arg1, arg2, arg3) ==
    [ttl |-> IF timeout # 0 THEN timeout ELSE 1,
     arg1 |-> arg1, arg2 |-> arg2, arg3 |-> arg3,
     csum |-> ChecksumFarmHash32]

\* the bodies buildRequest can produce
ReqBodies ==
    {buildRequest(t, a1, a2, a3) :
        t \in OptionTimeouts, a1 \in SendArg1s, a2 \in Arg2s, a3 \in Arg3s}

\* the bodies a caller can hand to send of a connection: those buildRequest
\* produces, and one whose ttl is 0
SendBodies == ReqBodies \cup {[b EXCEPT !.ttl = 0] : b \in ReqBodies}

\* TChannel.prototype.send; dest = "" stands for a missing options.host,
\* slot is where getOutConnection constructs a connection if it dials
TChannel_send(S, dest, reqBody, slot) ==
    IF S.chan.destroyed THEN throw(S, "cannot send() to destroyed tchannel")
    ELSE IF dest = "" THEN throw(S, "cannot send() without options.host")
    ELSE LET peer == getPeer(S, dest)
         IN IF peer # 0 THEN TChannelConnection_send(S, peer, reqBody)
            ELSE LET S1 == addPeerDial(S, dest, slot)
                 IN IF S1.log.threw # "none" THEN S1
                    ELSE TChannelConnection_send(S1, slot, reqBody)

(* ---------------------- connection: responses -------------------------- *)
\* payloads a response can carry in arg1 / an Error frame in message:
\* a text that is not JSON, and the JSON text of the $jsError envelope
JsErrorEnvelope ==
    [t |-> "json",
     v |-> [k \in {"$jsError"} |->
               [name |-> "Error", message |-> "no such operation"]]]

RecvArg1s == {JsErrorEnvelope}

\* errSer.deserialize: a text that does not parse is returned as it is; of
\* a parsed object with the single key $jsError the code reads data.name
deserializeError(str) ==
    IF str.t # "json" THEN str
    ELSE LET data == str.v
             ks == DOMAIN data
         IN IF ks = {"$jsError"}
            THEN IF "name" \notin ks THEN [t |-> "obj", v |-> data]
                 ELSE [t |-> "err", message |-> data["message"]]
            ELSE [t |-> "obj", v |-> data]

errorForCode(code, message) ==
    IF code = CodeOK THEN Null
    ELSE LET passedError == deserializeError(message)
         IN IF code = CodeAppException THEN passedError
            ELSE IF code = CodeTimeout
                 THEN [t |-> "err", message |-> "tchannel timeout",
                       passedError |-> passedError]
                 ELSE [t |-> "err", message |-> "tchannel invalid response code",
                       passedError |-> passedError]

\* faulty variant of completeOutOp that completes the operation with the
\* least frame id (the oldest, while ids do not wrap) instead of the one
\* the response names
completeOutOp_Oldest(S, c, id, err, arg1, arg2) ==
    IF id \notin DOMAIN S.conns[c].outOps THEN S
    ELSE LET first == Min(DOMAIN S.conns[c].outOps)
             op == S.conns[c].outOps[first]
             S1 == [S EXCEPT !.conns[c].outOps = MapDel(@, {first}),
                             !.conns[c].outPending = @ - 1]
         IN op_callback(S1, c, first, op, err, arg1, arg2)

completeOutOp(S, c, id, err, arg1, arg2) ==
    IF id \notin DOMAIN S.conns[c].outOps THEN S
    ELSE LET op == S.conns[c].outOps[id]
             S1 == [S EXCEPT !.conns[c].outOps = MapDel(@, {id}),
                             !.conns[c].outPending = @ - 1]
         IN op_callback(S1, c, id, op, err, arg1, arg2)

\* faulty variant of handleCallResponse that lacks the guard on remoteName
handleCallResponse_Unguarded(S, c, frame) ==
    completeOutOp(S, c, frame.id, errorForCode(frame.code, frame.arg1),
                  frame.arg2, frame.arg3)

handleCallResponse(S, c, frame) ==
    IF S.conns[c].remoteName = NullName
    THEN resetAll(S, c, Error("call response before init response"))
    ELSE completeOutOp(S, c, frame.id, errorForCode(frame.code, frame.arg1),
                       frame.arg2, frame.arg3)

handleError(S, c, frame) ==
    completeOutOp(S, c, frame.id, errorForCode(frame.code, frame.message),
                  Null, Null)

(* ----------------------- connection: inbound --------------------------- *)
InUids(conn) ==
    {conn.inOps[id].uid : id \in DOMAIN conn.inOps} \cup DOMAIN conn.handlers

\* new TChannelServerOp(connection, handler, reqFrame, start, sendFrame):
\* the record kept in inOps, and the closure process.nextTick will run
TChannelServerOp(uid, frame, start) ==
    [uid |-> uid, start |-> start, timeout |-> frame.ttl]

ServerOpClosure(frame, fn) ==
    [id |-> frame.id, state |-> "scheduled", responseSent |-> FALSE,
     fn |-> fn, arg1 |-> frame.arg1, checksumType |-> frame.csum]

\* faulty variant of handleCallRequest whose operation calls the handler
\* from its constructor instead of handing it to process.nextTick
handleCallRequest_CallsHandler(S, c, frame) ==
    IF S.conns[c].remoteName = NullName
    THEN resetAll(S, c, Error("call request before init request"))
    ELSE IF frame.arg1 \notin DOMAIN S.chan.endpoints
         THEN emit(S, 0, "endpoint.missing")
         ELSE LET conn == S.conns[c]
                  uid == NewUid(InUids(conn))
                  fn == S.chan.endpoints[frame.arg1]
                  S1 == emit(S, 0, "endpoint")
              IN [S1 EXCEPT
                    !.conns[c].inPending = @ + 1,
                    !.conns[c].inOps =
                        MapPut(@, frame.id, TChannelServerOp(uid, frame, now)),
                    !.conns[c].handlers =
                        MapPut(@, uid,
                               [ServerOpClosure(frame, fn)
                                   EXCEPT !.state = "running"]),
                    !.log.out = Append(@, [k |-> "run", conn |-> c,
                                           uid |-> uid, fn |-> fn])]

handleCallRequest(S, c, frame) ==
    IF S.conns[c].remoteName = NullName
    THEN resetAll(S, c, Error("call request before init request"))
    ELSE IF frame.arg1 \notin DOMAIN S.chan.endpoints
         THEN emit(S, 0, "endpoint.missing")
         ELSE LET conn == S.conns[c]
                  uid == NewUid(InUids(conn))
                  S1 == emit(S, 0, "endpoint")
              IN [S1 EXCEPT
                    !.conns[c].inPending = @ + 1,
                    !.conns[c].inOps =
                        MapPut(@, frame.id, TChannelServerOp(uid, frame, now)),
                    !.conns[c].handlers =
                        MapPut(@, uid,
                               ServerOpClosure(frame, S.chan.endpoints[frame.arg1]))]

\* errSer.serialize of an Error object: the JSON text of its envelope
serializeError(err) ==
    IF err.t = "str" THEN err
    ELSE [t |-> "json",
          v |-> [k \in {"$jsError"} |->
                    [name |-> "Error", message |-> err.message]]]

\* faulty variant of buildResponseFrame that always uses the checksum type
\* the channel itself sends with, not the one of the request
buildResponseFrame_OwnChecksum(h, err, res1, res2) ==
    [type |-> "CallResponse", id |-> h.id, flags |-> 0,
     code |-> IF err # Null THEN CodeAppException ELSE CodeOK,
     arg1 |-> IF err # Null THEN serializeError(err) ELSE Str(h.arg1),
     arg2 |-> res1, arg3 |-> res2, csum |-> ChecksumFarmHash32]

buildResponseFrame(h, err, res1, res2) ==
    [type |-> "CallResponse", id |-> h.id, flags |-> 0,
     code |-> IF err # Null THEN CodeAppException ELSE CodeOK,
     arg1 |-> IF err # Null THEN serializeError(err) ELSE Str(h.arg1),
     arg2 |-> res1, arg3 |-> res2, csum |-> h.checksumType]

\* faulty variant of sendFrame that looks the operation up by its frame id
\* only, not by the identity of the record
sendFrame_ById(S, c, uid, resFrame) ==
    LET conn == S.conns[c]
        id == conn.handlers[uid].id
    IN IF id \notin DOMAIN conn.inOps
       THEN S
       ELSE LET S1 == [S EXCEPT !.conns[c].inOps = MapDel(@, {id}),
                                !.conns[c].inPending = @ - 1]
            IN IF ~conn.closing THEN socket_write(S1, c, resFrame) ELSE S1

\* the sendFrame closure of handleCallRequest, for the operation uid
sendFrame(S, c, uid, resFrame) ==
    LET conn == S.conns[c]
        id == conn.handlers[uid].id
    IN IF ~(id \in DOMAIN conn.inOps /\ conn.inOps[id].uid = uid)
       THEN S
       ELSE LET S1 == [S EXCEPT !.conns[c].inOps = MapDel(@, {id}),
                                !.conns[c].inPending = @ - 1]
            IN IF ~conn.closing THEN socket_write(S1, c, resFrame) ELSE S1

\* TChannelServerOp.prototype.sendResponse
sendResponse(S, c, uid, err, res1, res2) ==
    LET h == S.conns[c].handlers[uid]
    IN IF h.responseSent THEN S
       ELSE sendFrame([S EXCEPT !.conns[c].handlers[uid].responseSent = TRUE],
                      c, uid, buildResponseFrame(h, err, res1, res2))

\* the process.nextTick callback of TChannelServerOp
runHandler(S, c, uid) ==
    [S EXCEPT !.conns[c].handlers[uid].state = "running",
              !.log.out = Append(@, [k |-> "run", conn |-> c, uid |-> uid,
                                     fn |-> S.conns[c].handlers[uid].fn])]

(* ------------------------ connection: sweeper -------------------------- *)
onReqTimeout(S, c, id, op) ==
    [op_callback(S, c, id, op, Error("timed out"), Null, Null)
        EXCEPT !.conns[c].lastTimeoutTime = now]

RECURSIVE checkOutOpsForTimeout_AtDeadline(_, _, _)
\* faulty variant of checkOutOpsForTimeout that compares with >= : an
\* operation is timed out as soon as its age reaches its timeout
checkOutOpsForTimeout_AtDeadline(S, c, opKeys) ==
    IF opKeys = <<>> THEN S
    ELSE LET opKey == Head(opKeys)
             op == S.conns[c].outOps[opKey]
             timeout == IF op.timeout # 0 THEN op.timeout ELSE reqTimeoutDefault
             duration == now - op.start
             dropped == [S EXCEPT !.conns[c].outOps = MapDel(@, {opKey}),
                                  !.conns[c].outPending = @ - 1]
             S1 == IF op.timedOut THEN dropped
                   ELSE IF duration >= timeout
                        THEN onReqTimeout(dropped, c, opKey, op)
                        ELSE S
         IN checkOutOpsForTimeout_AtDeadline(S1, c, Tail(opKeys))

RECURSIVE checkOutOpsForTimeout(_, _, _)
checkOutOpsForTimeout(S, c, opKeys) ==
    IF opKeys = <<>> THEN S
    ELSE LET opKey == Head(opKeys)
             op == S.conns[c].outOps[opKey]
             timeout == IF op.timeout # 0 THEN op.timeout ELSE reqTimeoutDefault
             duration == now - op.start
             dropped == [S EXCEPT !.conns[c].outOps = MapDel(@, {opKey}),
                                  !.conns[c].outPending = @ - 1]
             S1 == IF op.timedOut THEN dropped
                   ELSE IF duration > timeout
                        THEN onReqTimeout(dropped, c, opKey, op)
                        ELSE S
         IN checkOutOpsForTimeout(S1, c, Tail(opKeys))

RECURSIVE checkInOpsForTimeout_MarksTimeout(_, _, _)
\* faulty variant of checkInOpsForTimeout that treats a pruned operation
\* as a timeout of the connection
checkInOpsForTimeout_MarksTimeout(S, c, opKeys) ==
    IF opKeys = <<>> THEN S
    ELSE LET opKey == Head(opKeys)
             op == S.conns[c].inOps[opKey]
             duration == now - op.start
             S1 == IF duration > serverTimeoutDefault
                   THEN [S EXCEPT !.conns[c].inOps = MapDel(@, {opKey}),
                                  !.conns[c].inPending = @ - 1,
                                  !.conns[c].lastTimeoutTime = now]
                   ELSE S
         IN checkInOpsForTimeout_MarksTimeout(S1, c, Tail(opKeys))

RECURSIVE checkInOpsForTimeout(_, _, _)
checkInOpsForTimeout(S, c, opKeys) ==
    IF opKeys = <<>> THEN S
    ELSE LET opKey == Head(opKeys)
             op == S.conns[c].inOps[opKey]
             duration == now - op.start
             S1 == IF duration > serverTimeoutDefault
                   THEN [S EXCEPT !.conns[c].inOps = MapDel(@, {opKey}),
                                  !.conns[c].inPending = @ - 1]
                   ELSE S
         IN checkInOpsForTimeout(S1, c, Tail(opKeys))

socket_destroy(S, c) ==
    [S EXCEPT !.conns[c].sock = IF @ \in {"open", "ended"} THEN "destroyed" ELSE @,
              !.log.out = Append(@, [k |-> "destroy", conn |-> c])]

socket_end(S, c) ==
    [S EXCEPT !.conns[c].sock = IF @ = "open" THEN "ended" ELSE @,
              !.log.out = Append(@, [k |-> "end", conn |-> c])]

onTimeoutCheck(S, c) ==
    IF S.conns[c].closing THEN S
    ELSE IF S.conns[c].lastTimeoutTime # 0 THEN socket_destroy(S, c)
    ELSE LET S1 == checkOutOpsForTimeout(S, c, SortedSeq(DOMAIN S.conns[c].outOps))
             S2 == checkInOpsForTimeout(S1, c, SortedSeq(DOMAIN S1.conns[c].inOps))
         IN startTimeoutTimer(S2, c)

(* ---------------------- connection: frame dispatch --------------------- *)
\* faulty variant of onFrame that leaves lastTimeoutTime as it is
onFrame_KeepsTimeoutMark(S, c, frame) ==
    CASE frame.type = "InitRequest" -> handleInitRequest(S, c, frame)
      [] frame.type = "InitResponse" -> handleInitResponse(S, c, frame)
      [] frame.type = "CallRequest" -> handleCallRequest(S, c, frame)
      [] frame.type = "CallResponse" -> handleCallResponse(S, c, frame)
      [] frame.type = "Error" -> handleError(S, c, frame)
      [] OTHER -> S

onFrame(S, c, frame) ==
    LET S1 == [S EXCEPT !.conns[c].lastTimeoutTime = 0]
    IN CASE frame.type = "InitRequest" -> handleInitRequest(S1, c, frame)
         [] frame.type = "InitResponse" -> handleInitResponse(S1, c, frame)
         [] frame.type = "CallRequest" -> handleCallRequest(S1, c, frame)
         [] frame.type = "CallResponse" -> handleCallResponse(S1, c, frame)
         [] frame.type = "Error" -> handleError(S1, c, frame)
         [] OTHER -> S1

\* faulty variant of the 'frame' listener that does not test closing
onParserFrame_NoClosingTest(S, c, frame) ==
    onFrame(S, c, frame)

onParserFrame(S, c, frame) ==
    IF ~S.conns[c].closing THEN onFrame(S, c, frame) ELSE S

\* onParserError only logs
onParserError(S, c) ==
    [S EXCEPT !.log.logged = Append(@, "tchannel parse error")]

\* what the parser makes of one frame slice: a frame or a decode error
RecvFrames ==
    {[type |-> ty, id |-> 1, hostPort |-> hp] :
        ty \in {"InitRequest", "InitResponse"}, hp \in AnnouncedHostPorts}
    \cup
    {[type |-> "CallRequest", id |-> ic[1], ttl |-> 1, arg1 |-> a1,
      arg2 |-> Str(a2), arg3 |-> Str(a3), csum |-> ic[2]] :
        ic \in RecvCalls, a1 \in Endpoints, a2 \in Arg2s, a3 \in Arg3s}
    \cup
    {[type |-> "CallRequest", id |-> 1, ttl |-> 1, arg1 |-> a1,
      arg2 |-> Str(a2), arg3 |-> Str(a3), csum |-> ChecksumNone] :
        a1 \in Arg1s \ Endpoints, a2 \in Arg2s, a3 \in Arg3s}
    \cup
    {[type |-> "CallResponse", id |-> id, code |-> code, arg1 |-> a1,
      arg2 |-> Str(a2), arg3 |-> Str(a3)] :
        id \in RecvIds, code \in RecvCodes, a1 \in RecvArg1s,
        a2 \in Arg2s, a3 \in Arg3s}
    \cup
    {[type |-> "Error", id |-> id, code |-> code, message |-> m] :
        id \in RecvIds, code \in RecvCodes, m \in RecvArg1s}

ParseError == [type |-> "ParseError"]

\* parser.execute on a chunk that holds exactly one frame slice: the
\* 'frame' and 'error' listeners of the constructor
parser_execute(S, c, item) ==
    IF item.type = "ParseError"
    THEN IF ~S.conns[c].closing THEN onParserError(S, c) ELSE S
    ELSE onParserFrame(S, c, item)

onSocketData(S, c, item) ==
    IF ~S.conns[c].closing THEN parser_execute(S, c, item) ELSE S

RECURSIVE parser_executeAll(_, _, _)
\* parser.execute on a chunk that holds the frame slices items: the loop
\* emits one event per slice before it returns, and the listeners run
\* inside emit
parser_executeAll(S, c, items) ==
    IF items = <<>> THEN S
    ELSE Only({parser_executeAll(T, c, Tail(items)) :
                  T \in {parser_execute(S, c, Head(items))}})

\* the socket's 'data' listener for a chunk of several frame slices
onSocketDataAll(S, c, items) ==
    IF ~S.conns[c].closing THEN parser_executeAll(S, c, items) ELSE S

(* ------------------------------ channel -------------------------------- *)
\* faulty variant of onClose that tests the counter before it decrements it
\* (counter-- <= 0)
onClose_PostDecrement(S) ==
    LET S1 == [S EXCEPT !.chan.counter = @ - 1]
    IN IF S.chan.counter <= 0
       THEN [S1 EXCEPT !.chan.callbackCalls = @ + 1]
       ELSE S1

\* onClose of quit: counts the sockets that reported close
onClose(S) ==
    LET counter == S.chan.counter - 1
        S1 == [S EXCEPT !.chan.counter = counter]
    IN IF counter <= 0
       THEN [S1 EXCEPT !.chan.callbackCalls = @ + 1]
       ELSE S1

RECURSIVE onCloseTimes(_, _)
onCloseTimes(S, n) == IF n = 0 THEN S ELSE onCloseTimes(onClose(S), n - 1)

\* the socket's 'close' listeners in the order they were attached:
\* onSocketClose, clearTimer, then the onClose listeners of quit
socket_onClose(S, c) ==
    LET S1 == onSocketErr(S, c, Error("socket closed"))
        S2 == [S1 EXCEPT !.conns[c].timer = FALSE, !.conns[c].sock = "closed"]
        n == S2.conns[c].quitListeners
    IN onCloseTimes([S2 EXCEPT !.conns[c].quitListeners = 0], n)

RECURSIVE eachPeer(_, _)
eachPeer(S, list) ==
    IF list = <<>> THEN S
    ELSE LET c == Head(list)
             S1 == [S EXCEPT !.conns[c].quitListeners =
                        IF S.conns[c].sock = "closed" THEN @ ELSE @ + 1]
             S2 == clearTimeoutTimer(S1, c)
             S3 == [S2 EXCEPT !.conns[c].closing = TRUE]
             S4 == resetAll(S3, c, Error("shutdown from quit"))
         IN eachPeer(socket_end(S4, c), Tail(list))

quit(S) ==
    LET list == getPeers(S)
        S1 == [S EXCEPT !.chan.destroyed = TRUE,
                        !.chan.counter = Len(list) + 1,
                        !.chan.quits = @ + 1]
        S2 == eachPeer(S1, list)
    IN [S2 EXCEPT !.chan.serverSocket = "closing"]

register(S, name, fn) ==
    [S EXCEPT !.chan.endpoints = MapPut(@, name, fn), !.chan.regs = @ + 1]

\* TRouterService.prototype.register on the endpoint table of a service,
\* for a handler that is a function: the table afterwards and the error
\* thrown
TRouterService_register(endpoints, name, handler) ==
    IF name \in DOMAIN endpoints
    THEN [endpoints |-> endpoints, threw |-> "EndpointAlreadyDefinedError"]
    ELSE [endpoints |-> MapPut(endpoints, name, handler), threw |-> "none"]

onServerSocketConnection(S, slot, remoteAddr) ==
    IF ~S.chan.destroyed THEN TChannelConnection(S, slot, "in", remoteAddr)
    ELSE S

(* ------------------------------ actions -------------------------------- *)
Live == {c \in ConnIds : conns[c].exists}

\* the workload so far fits one of Workloads after dc more connections,
\* ds more sends, dk more CallRequests and dr more registrations
Fits(dc, ds, dk, dr) ==
    \E w \in Workloads :
        /\ Cardinality(Live) + dc <= w.conns
        /\ chan.sent + ds <= w.sends
        /\ chan.calls + dk <= w.calls
        /\ chan.regs + dr <= w.regs
Free == ConnIds \ Live
FreeSlot == IF Free = {} THEN 0 ELSE Min(Free)

ChannelInit ==
    /\ conns = [c \in ConnIds |-> NoConn]
    /\ peers = [h \in PeerKeys |-> <<>>]
    /\ chan = [destroyed |-> FALSE, endpoints |-> EmptyMap, counter |-> 0,
               callbackCalls |-> 0, quits |-> 0, serverSocket |-> "listening",
               sent |-> 0, calls |-> 0, regs |-> 0]
    /\ now = 0
    /\ last = <<>>

\* new TChannel({host, port}): the state of a channel after construction
TChannel ==
    [conns |-> [c \in ConnIds |-> NoConn],
     peers |-> [h \in PeerKeys |-> <<>>],
     chan |-> [destroyed |-> FALSE, endpoints |-> EmptyMap, counter |-> 0,
               callbackCalls |-> 0, quits |-> 0, serverSocket |-> "listening",
               sent |-> 0, calls |-> 0, regs |-> 0]]

\* no second channel
NoLink ==
    [dialer |-> "none", far |-> TChannel, toFar |-> <<>>, toNear |-> <<>>,
     farParser |-> ChunkParser, nearParser |-> ChunkParser,
     crossed |-> <<>>, identified |-> [near |-> 0, far |-> 0]]

Init == ChannelInit /\ wire = NoWire /\ link = NoLink

\* the clock advances (only while some operation is pending, see Commit)
Tick ==
    /\ now < MaxTime
    /\ Pending(conns)
    /\ now' = now + 1
    /\ last' = <<>>
    /\ UNCHANGED <<conns, peers, chan, wire, link>>

\* the application calls channel.send(options, arg1, arg2, arg3, callback)
ChannelSend(dest, reqBody) ==
    /\ LET peer == IF dest = "" THEN 0 ELSE getPeer(Cur, dest)
       IN IF chan.destroyed \/ dest \in {"", LocalHostPort} THEN TRUE
          ELSE IF peer # 0 THEN Fits(0, 1, 0, 0)
          ELSE FreeSlot # 0 /\ Fits(1, 1, 0, 0)
    /\ Commit(TChannel_send(Cur, dest, reqBody, FreeSlot))

CallChannelSend ==
    \E dest \in DestHosts \cup {""}, reqBody \in ReqBodies :
        ChannelSend(dest, reqBody)

\* the application calls send(reqBody, callback) on a connection it holds
ConnectionSend(c, reqBody) ==
    /\ conns[c].exists
    /\ Fits(0, 1, 0, 0)
    /\ Commit(TChannelConnection_send(Cur, c, reqBody))

CallConnectionSend ==
    \E c \in ConnIds, reqBody \in SendBodies : ConnectionSend(c, reqBody)

\* the application calls channel.addPeer(hostPort)
CallAddPeer ==
    \E dest \in DestHosts :
        /\ dest = LocalHostPort \/ (FreeSlot # 0 /\ Fits(1, 0, 0, 0))
        /\ Commit(addPeerDial(Cur, dest, FreeSlot))

\* the application calls channel.register(name, fn) with a new function
CallRegister ==
    \E name \in Endpoints :
        /\ Fits(0, 0, 0, 1)
        /\ chan.regs < Len(HandlerFns)
        /\ Commit(register(Cur, name, HandlerFns[chan.regs + 1]))

CallQuit ==
    /\ chan.quits = 0
    /\ Commit(quit(Cur))

OnServerSocketConnection ==
    \E remoteAddr \in AcceptAddrs :
        /\ chan.serverSocket = "listening"
        /\ remoteAddr = LocalHostPort \/ chan.destroyed
               \/ (FreeSlot # 0 /\ Fits(1, 0, 0, 0))
        /\ Commit(onServerSocketConnection(Cur, FreeSlot, remoteAddr))

OnServerSocketClose ==
    /\ chan.serverSocket = "closing"
    /\ Commit(onClose([Cur EXCEPT !.chan.serverSocket = "closed"]))

\* a chunk arrives on the socket of connection c and the parser makes
\* item of it
SocketData(c, item) ==
    /\ conns[c].exists
    /\ conns[c].sock \in {"open", "ended"}
    /\ item.type = "CallRequest" => Fits(0, 0, 1, 0)
    /\ Commit([onSocketData(Cur, c, item) EXCEPT
                  !.chan.calls =
                      IF item.type = "CallRequest" THEN @ + 1 ELSE @])

OnSocketData ==
    \E c \in ConnIds, item \in RecvFrames \cup {ParseError} : SocketData(c, item)

\* the socket of connection c reports an error (and is destroyed by it)
SocketError(c) ==
    /\ conns[c].exists
    /\ conns[c].sock \in {"open", "ended"}
    /\ Commit([onSocketErr(Cur, c, Error("socket error"))
                  EXCEPT !.conns[c].sock = "destroyed"])

OnSocketError == \E c \in ConnIds : SocketError(c)

\* the socket of connection c reports close
SocketClose(c) ==
    /\ conns[c].exists
    /\ conns[c].sock \in {"open", "ended", "destroyed"}
    /\ Commit(socket_onClose(Cur, c))

OnSocketClose == \E c \in ConnIds : SocketClose(c)

\* the sweep timer of connection c fires
ChannelTimeout(c) ==
    /\ conns[c].exists
    /\ conns[c].timer
    /\ Commit(onTimeoutCheck([Cur EXCEPT !.conns[c].timer = FALSE], c))

OnChannelTimeout == \E c \in ConnIds : ChannelTimeout(c)

\* the scheduler runs a handler that handleCallRequest deferred
RunHandler ==
    \E c \in Live : \E uid \in DOMAIN conns[c].handlers :
        /\ conns[c].handlers[uid].state = "scheduled"
        /\ Commit(runHandler(Cur, c, uid))

\* a running handler calls its respond sink
HandlerResponds ==
    \E c \in Live : \E uid \in DOMAIN conns[c].handlers,
                       err \in {Null, Error("app")} :
        /\ conns[c].handlers[uid].state = "running"
        /\ Commit(sendResponse(Cur, c, uid, err, Str("r1"), Str("r2")))

\* a running handler returns for good: it will not call respond (again)
HandlerReturns ==
    \E c \in Live : \E uid \in DOMAIN conns[c].handlers :
        /\ conns[c].handlers[uid].state = "running"
        /\ Commit([Cur EXCEPT !.conns[c].handlers = MapDel(@, {uid})])

Next ==
    \/ Tick
    \/ CallChannelSend
    \/ CallConnectionSend
    \/ CallAddPeer
    \/ CallRegister
    \/ CallQuit
    \/ OnServerSocketConnection
    \/ OnServerSocketClose
    \/ OnSocketData
    \/ OnSocketError
    \/ OnSocketClose
    \/ OnChannelTimeout
    \/ RunHandler
    \/ HandlerResponds
    \/ HandlerReturns

Spec == Init /\ [][Next]_vars

(* ----------------------------- wire: actions --------------------------- *)
\* the sender writes the bytes of the next item to the socket
SocketWrite ==
    /\ wire.script # <<>>
    /\ wire' = [wire EXCEPT
                   !.script = Tail(@),
                   !.sent = Append(@, Head(wire.script)),
                   !.socket = @ \o ItemBytes(Head(wire.script), wire.width)]
    /\ UNCHANGED <<conns, peers, chan, now, last, link>>

\* the socket's 'data' listener hands a chunk of k bytes to parser.execute,
\* unless an earlier call has not returned
OnSocketChunk ==
    /\ wire.unit = "parser"
    /\ ~wire.hung
    /\ \E k \in 1 .. Len(wire.socket) :
          \E R \in {ChunkParser_execute(wire.m, slice(wire.socket, 0, k))} :
              wire' = [wire EXCEPT
                          !.socket = slice(@, k, Len(@)),
                          !.delivered = @ \o slice(wire.socket, 0, k),
                          !.m = R.parser,
                          !.out = @ \o R.out,
                          !.hung = R.hung]
    /\ UNCHANGED <<conns, peers, chan, now, last, link>>

\* the stream hands a chunk of k bytes to _transform of the reader, unless
\* an earlier call ended in an error
OnStreamChunk ==
    /\ wire.unit = "reader"
    /\ ~wire.hung
    /\ \E k \in 1 .. Len(wire.socket) :
          \E R \in {ChunkReader_transform(wire.m, slice(wire.socket, 0, k))} :
              wire' = [wire EXCEPT
                          !.socket = slice(@, k, Len(@)),
                          !.delivered = @ \o slice(wire.socket, 0, k),
                          !.m = R.reader,
                          !.out = @ \o R.out,
                          !.hung = R.err # NoError]
    /\ UNCHANGED <<conns, peers, chan, now, last, link>>

WireNext == SocketWrite \/ OnSocketChunk \/ OnStreamChunk

\* a sender, a socket that delivers the bytes in chunks of any length, and
\* a parser or a reader
WireInit == ChannelInit /\ wire \in WireStarts /\ link = NoLink

Wire == WireInit /\ [][WireNext]_vars

(* ------------------------- two channels on a link ---------------------- *)
\* The channel of conns, peers and chan (host:port A) and a second channel
\* (host:port B), joined by one socket pair.  The second channel runs the
\* same code; its state is kept in link.far with the names A and B
\* exchanged, so that its own host:port reads LocalHostPort there, and the
\* names are exchanged back in the bytes it writes and reads.
Swap(hostPort) ==
    IF hostPort = "A" THEN "B" ELSE IF hostPort = "B" THEN "A" ELSE hostPort

FarCur ==
    [conns |-> link.far.conns, peers |-> link.far.peers,
     chan |-> link.far.chan, log |-> EmptyLog]

\* v2.Frame(id, 0, v2.InitRequest(VERSION, hostPort, processName)) of
\* sendInitRequest and sendInitResponse, for the init frame of the log
InitFrame_toWire(frame, far) ==
    Frame(frame.id, frame.flags,
          InitBody(IF frame.type = "InitRequest" THEN TypeInitRequest
                   ELSE TypeInitResponse,
                   frame.version,
                   Ascii[IF far THEN Swap(frame.hostPort) ELSE frame.hostPort],
                   Ascii.echo))

RECURSIVE socket_written(_, _)
\* the bytes handed to socket.write in a step, in order
socket_written(out, far) ==
    IF out = <<>> THEN <<>>
    ELSE (IF Head(out).k = "write"
          THEN Frame_write(InitFrame_toWire(Head(out).frame, far))
          ELSE <<>>) \o socket_written(Tail(out), far)

\* what the 'frame' and 'error' listeners of the parser are handed
ParserEvent_item(event, far) ==
    IF event.k = "error" \/ event.frame.body.type
                                \notin {TypeInitRequest, TypeInitResponse}
    THEN ParseError
    ELSE [type |-> IF event.frame.body.type = TypeInitRequest
                   THEN "InitRequest" ELSE "InitResponse",
          id |-> event.frame.id,
          hostPort |->
              Only({IF far THEN Swap(h) ELSE h :
                       h \in {CHOOSE h \in {"A", "B"} :
                                  Ascii[h] = event.frame.body.hostPort}})]

RECURSIVE parser_emits(_, _, _, _)
\* the listeners run for the events of one execute call, in order
parser_emits(S, c, events, far) ==
    IF events = <<>> THEN S
    ELSE Only({parser_emits(T, c, Tail(events), far) :
                  T \in {parser_execute(S, c, ParserEvent_item(Head(events), far))}})

\* the socket's 'data' listener of connection c for a chunk: the channel
\* after it, and the parser
onSocketChunk(S, c, parser, chunk, far) ==
    IF S.conns[c].closing THEN [S |-> S, parser |-> parser, out |-> <<>>]
    ELSE Only({[S |-> parser_emits(S, c, R.out, far), parser |-> R.parser,
                out |-> R.out] :
                  R \in {ChunkParser_execute(parser, chunk)}})

identifiedCount(out) ==
    Cardinality({i \in 1 .. Len(out) :
                    out[i].k = "emit" /\ out[i].name = "identified"})

RECURSIVE frameTypes(_)
frameTypes(events) ==
    IF events = <<>> THEN <<>>
    ELSE (IF Head(events).k = "frame" THEN <<Head(events).frame.body.type>>
          ELSE <<>>) \o frameTypes(Tail(events))

\* one channel calls addPeer(hostPort of the other), whose server socket
\* accepts the connection from remote address X
LinkDial ==
    /\ link.dialer = "none"
    /\ \E who \in {"near", "far"} :
       \E N \in {IF who = "near" THEN addPeerDial(Cur, "B", 1)
                 ELSE onServerSocketConnection(Cur, 1, "X")} :
       \E F \in {IF who = "far" THEN addPeerDial(FarCur, "B", 1)
                 ELSE onServerSocketConnection(FarCur, 1, "X")} :
          /\ Settle(N)
          /\ link' = [link EXCEPT
                         !.dialer = who,
                         !.far = [conns |-> F.conns, peers |-> F.peers,
                                  chan |-> F.chan],
                         !.toFar = socket_written(N.log.out, FALSE),
                         !.toNear = socket_written(F.log.out, TRUE)]
    /\ UNCHANGED wire

\* the socket of the second channel delivers the next k bytes
DeliverToFar ==
    /\ link.dialer # "none"
    /\ \E k \in 1 .. Len(link.toFar) :
       \E R \in {onSocketChunk(FarCur, 1, link.farParser,
                               slice(link.toFar, 0, k), TRUE)} :
          link' = [link EXCEPT
                      !.toFar = slice(@, k, Len(@)),
                      !.farParser = R.parser,
                      !.far = [conns |-> R.S.conns, peers |-> R.S.peers,
                               chan |-> R.S.chan],
                      !.toNear = @ \o socket_written(R.S.log.out, TRUE),
                      !.crossed = @ \o frameTypes(R.out),
                      !.identified.far = @ + identifiedCount(R.S.log.out)]
    /\ UNCHANGED <<conns, peers, chan, now, last, wire>>

\* the socket of the first channel delivers the next k bytes
DeliverToNear ==
    /\ link.dialer # "none"
    /\ \E k \in 1 .. Len(link.toNear) :
       \E R \in {onSocketChunk(Cur, 1, link.nearParser,
                               slice(link.toNear, 0, k), FALSE)} :
          /\ Settle(R.S)
          /\ link' = [link EXCEPT
                         !.toNear = slice(@, k, Len(@)),
                         !.nearParser = R.parser,
                         !.toFar = @ \o socket_written(R.S.log.out, FALSE),
                         !.crossed = @ \o frameTypes(R.out),
                         !.identified.near = @ + identifiedCount(R.S.log.out)]
    /\ UNCHANGED wire

LinkNext == LinkDial \/ DeliverToFar \/ DeliverToNear

\* Two channels, one dial, no socket failure.  A socket that holds written
\* bytes goes on emitting 'data' until it has handed all of them over.
Link ==
    /\ Init
    /\ [][LinkNext]_vars
    /\ WF_vars(DeliverToFar)
    /\ WF_vars(DeliverToNear)

(* ------------------------------ claims --------------------------------- *)
\* the entries of one kind in the log of a step, in order
OfKind(out, kind) == SelectSeq(out, LAMBDA e : e.k = kind)

\* list without the occurrences of connection c
Without(list, c) == SelectSeq(list, LAMBDA x : x # c)

\* the log entry of the sink of operation id of connection c as it was
\* pending in table ops, invoked with (err, a, b)
SinkCall(c, ops, id, err, a, b) ==
    [k |-> "call", conn |-> c, id |-> id, start |-> ops[id].start,
     err |-> err, arg2 |-> a, arg3 |-> b]

EmitOf(c, name) == [k |-> "emit", conn |-> c, name |-> name]

\* the sweep of connection c: the timer callback onChannelTimeout
Sweep(c) == onTimeoutCheck([Cur EXCEPT !.conns[c].timer = FALSE], c)

\* C1: A CallRequest or CallResponse frame received on a connection that is
\* not yet identified (remoteName is null) resets the connection: it is
\* closing afterwards and 'reset' was emitted; no inbound operation is
\* recorded, no handler is scheduled or run, nothing is written; and no
\* outbound operation is completed with the frame's content: every sink that
\* is invoked gets the reset error with null results.
C1_CallBeforeInitResets ==
    \A c \in Live : \A frame \in RecvFrames :
        (/\ frame.type \in {"CallRequest", "CallResponse"}
         /\ ~conns[c].closing
         /\ conns[c].remoteName = NullName)
        => LET R == onSocketData(Cur, c, frame)
               out == R.log.out
               err == IF frame.type = "CallRequest"
                      THEN Error("call request before init request")
                      ELSE Error("call response before init response")
           IN /\ R.conns[c].closing
              /\ Len(out) > 0 /\ out[1] = EmitOf(c, "reset")
              /\ R.conns[c].inOps = EmptyMap
              /\ R.conns[c].handlers = conns[c].handlers
              /\ OfKind(out, "run") = <<>>
              /\ OfKind(out, "write") = <<>>
              /\ R.conns[c].outOps = EmptyMap
              /\ Len(OfKind(out, "call")) = Cardinality(DOMAIN conns[c].outOps)
              /\ \A i \in 1 .. Len(out) :
                    out[i].k = "call" =>
                        /\ out[i].err = err
                        /\ out[i].arg2 = Null
                        /\ out[i].arg3 = Null

\* C1 happens: a CallResponse reached a connection that was not identified
\* and had an operation pending, whose sink got the reset error
C1_Witness ==
    \E c \in Live :
        /\ conns[c].closing
        /\ conns[c].remoteName = NullName
        /\ \E i \in 1 .. Len(last) :
              /\ last[i].k = "call"
              /\ last[i].conn = c
              /\ last[i].err = Error("call response before init response")

\* C2: An InitRequest or InitResponse frame received on a connection that is
\* already identified resets the connection and changes nothing else:
\* remoteName keeps its value, no peer entry is added, 'identified' is not
\* emitted, no frame is written, and the channel and the other connections
\* are as they were.
C2_DuplicateInitResets ==
    \A c \in Live : \A frame \in RecvFrames :
        (/\ frame.type \in {"InitRequest", "InitResponse"}
         /\ ~conns[c].closing
         /\ conns[c].remoteName # NullName)
        => LET R == onSocketData(Cur, c, frame)
               out == R.log.out
           IN /\ R.conns[c].closing
              /\ Len(out) > 0 /\ out[1] = EmitOf(c, "reset")
              /\ R.conns[c].remoteName = conns[c].remoteName
              /\ R.conns[c].lastSentFrameId = conns[c].lastSentFrameId
              /\ \A h \in PeerKeys :
                    /\ Len(R.peers[h]) <= Len(peers[h])
                    /\ Without(R.peers[h], c) = Without(peers[h], c)
              /\ \A i \in 1 .. Len(out) : out[i] # EmitOf(0, "identified")
              /\ OfKind(out, "write") = <<>>
              /\ R.chan = chan
              /\ \A d \in ConnIds \ {c} : R.conns[d] = conns[d]

\* C2 happens: a second init frame reset an identified connection whose
\* socket is still open, and the sink of a pending operation got the error
C2_Witness ==
    \E c \in Live :
        /\ conns[c].closing
        /\ conns[c].remoteName # NullName
        /\ conns[c].sock = "open"
        /\ \E i \in 1 .. Len(last) :
              /\ last[i].k = "call"
              /\ last[i].conn = c
              /\ last[i].err \in {Error("duplicate init request"),
                                  Error("duplicate init response")}

\* C3: The channel never writes a CallRequest frame on a connection whose
\* own remoteName is null: every CallRequest written in a step went to a
\* connection that is identified.
C3_NoCallRequestBeforeHandshake ==
    \A i \in 1 .. Len(last) :
        (last[i].k = "write" /\ last[i].frame.type = "CallRequest")
        => conns[last[i].conn].remoteName # NullName

\* C4: Once a connection is closing, none of the operations that write
\* frames writes one on it: send, a handler's respond (sendResponse and its
\* sendFrame), and the handling of a received frame (sendInitResponse).
C4_NoWriteWhileClosing ==
    \A c \in Live :
        conns[c].closing =>
            /\ \A reqBody \in SendBodies :
                  OfKind(TChannelConnection_send(Cur, c, reqBody).log.out,
                         "write") = <<>>
            /\ \A uid \in DOMAIN conns[c].handlers :
                  \A err \in {Null, Error("app")} :
                      OfKind(sendResponse(Cur, c, uid, err, Str("r1"),
                                          Str("r2")).log.out, "write") = <<>>
            /\ \A frame \in RecvFrames :
                  OfKind(onSocketData(Cur, c, frame).log.out, "write") = <<>>

\* C5: resetAll(err) on a connection that is not closing sets closing,
\* cancels the sweep timer and emits 'reset'; it empties inOps without
\* running a handler or writing a frame; it invokes the sink of every
\* outbound operation that was pending exactly once, with err and null
\* results, and leaves outOps empty; and only then it emits 'socketClose'.
\* On a connection that is closing it does nothing.
C5_ResetAll ==
    \A c \in Live : \A err \in {Error("socket closed"), Null} :
        LET R == resetAll(Cur, c, err)
            out == R.log.out
            keys == SortedSeq(DOMAIN conns[c].outOps)
            n == Len(keys)
        IN IF conns[c].closing THEN R = Cur
           ELSE /\ R.conns[c].closing
                /\ ~R.conns[c].timer
                /\ Len(out) >= n + 2
                /\ out[1] = EmitOf(c, "reset")
                /\ R.conns[c].inOps = EmptyMap
                /\ R.conns[c].handlers = conns[c].handlers
                /\ OfKind(out, "run") = <<>>
                /\ OfKind(out, "write") = <<>>
                /\ OfKind(out, "call") =
                       [i \in 1 .. n |->
                           SinkCall(c, conns[c].outOps, keys[i], err, Null, Null)]
                /\ \A i \in 1 .. n : out[i + 1].k = "call"
                /\ R.conns[c].outOps = EmptyMap
                /\ out[n + 2] = EmitOf(c, "socketClose")
                /\ \A i \in 1 .. Len(out) :
                      out[i] = EmitOf(c, "reset") => i = 1
                /\ \A i \in 1 .. Len(out) :
                      out[i] = EmitOf(c, "socketClose") => i = n + 2

\* C5 happens: a step reset a connection with two operations pending; both
\* sinks were invoked between 'reset' and 'socketClose'
C5_Witness ==
    \E c \in Live :
        /\ conns[c].closing
        /\ conns[c].outOps = EmptyMap
        /\ Len(last) >= 4
        /\ last[1] = EmitOf(c, "reset")
        /\ last[2].k = "call" /\ last[3].k = "call"
        /\ last[2].id # last[3].id
        /\ last[4] = EmitOf(c, "socketClose")

\* C6: A connection on which resetAll has been called (after a socket error
\* or close, a protocol guard, or the channel's quit) is no longer in the
\* peer table, so getPeer never returns a reset connection: no list of the
\* peer table holds a connection that is closing.
C6_ResetConnectionNotInPeers ==
    \A h \in PeerKeys :
        \A i \in 1 .. Len(peers[h]) : ~conns[peers[h][i]].closing

\* what a sweep of connection c does when expired are the keys of the
\* operations it is to time out: it removes exactly those from outOps,
\* invokes the sink of each once with the error 'timed out' and null
\* results, sets lastTimeoutTime to now if there was one, leaves the other
\* operations as they are, arms the timer again and does not reset
SweepTimesOut(c, expired) ==
    LET R == Sweep(c)
        ops == conns[c].outOps
        keys == SortedSeq(expired)
    IN /\ R.conns[c].outOps = MapDel(ops, expired)
       /\ OfKind(R.log.out, "call") =
              [i \in 1 .. Len(keys) |->
                  SinkCall(c, ops, keys[i], Error("timed out"), Null, Null)]
       /\ R.conns[c].lastTimeoutTime = IF expired = {} THEN 0 ELSE now
       /\ expired # {} => now # 0
       /\ R.conns[c].timer
       /\ ~R.conns[c].closing

C8_SweepEscalates ==
    \A c \in Live :
        /\ LET R == Sweep(c)
               escalated == ~conns[c].closing /\ conns[c].lastTimeoutTime # 0
           IN /\ OfKind(R.log.out, "destroy") =
                     IF escalated THEN <<[k |-> "destroy", conn |-> c]>> ELSE <<>>
              /\ ~escalated =>
                    /\ R.conns[c].closing = conns[c].closing
                    /\ R.conns[c].sock = conns[c].sock
                    /\ OfKind(R.log.out, "emit") = <<>>
              /\ (R.conns[c].lastTimeoutTime # 0 /\ conns[c].lastTimeoutTime = 0)
                    => \E i \in 1 .. Len(R.log.out) :
                          /\ R.log.out[i].k = "call"
                          /\ R.log.out[i].err = Error("timed out")
        /\ \A frame \in RecvFrames :
              ~conns[c].closing =>
                  onSocketData(Cur, c, frame).conns[c].lastTimeoutTime = 0
        /\ \A reqBody \in SendBodies :
              TChannelConnection_send(Cur, c, reqBody).conns[c].lastTimeoutTime
                  \in {0, conns[c].lastTimeoutTime}
        /\ socket_onClose(Cur, c).conns[c].lastTimeoutTime
              \in {0, conns[c].lastTimeoutTime}
        /\ quit(Cur).conns[c].lastTimeoutTime \in {0, conns[c].lastTimeoutTime}

\* C8 happens: a sweep found lastTimeoutTime non-zero and destroyed the
\* socket
C8_Witness ==
    \E c \in Live :
        /\ last = <<[k |-> "destroy", conn |-> c]>>
        /\ conns[c].lastTimeoutTime # 0
        /\ conns[c].sock = "destroyed"
        /\ ~conns[c].closing

\* C9: A CallResponse frame with id X received on an identified connection
\* removes exactly the outbound operation enrolled under X and invokes its
\* sink once with (the error derived from the response code, arg2, arg3);
\* every other pending operation is untouched; if no operation is enrolled
\* under X the frame is dropped and nothing changes.
C9_CallResponseCompletes ==
    \A c \in Live : \A frame \in RecvFrames :
        (/\ frame.type = "CallResponse"
         /\ ~conns[c].closing
         /\ conns[c].remoteName # NullName)
        => LET R == onSocketData(Cur, c, frame)
               ops == conns[c].outOps
           IN /\ \A d \in ConnIds \ {c} : R.conns[d] = conns[d]
              /\ R.peers = peers
              /\ R.conns[c].inOps = conns[c].inOps
              /\ R.conns[c].closing = conns[c].closing
              /\ IF frame.id \in DOMAIN ops
                 THEN /\ R.conns[c].outOps = MapDel(ops, {frame.id})
                      /\ R.log.out =
                            <<SinkCall(c, ops, frame.id,
                                       errorForCode(frame.code, frame.arg1),
                                       frame.arg2, frame.arg3)>>
                 ELSE /\ R.conns[c].outOps = ops
                      /\ R.log.out = <<>>

\* C9 happens: a response completed an operation while an operation sent
\* no later than it stays pending
C9_Witness ==
    \E c \in Live :
        /\ conns[c].remoteName # NullName
        /\ ~conns[c].closing
        /\ Len(last) = 1
        /\ last[1].k = "call"
        /\ last[1].conn = c
        /\ last[1].arg2 = Str("a2")
        /\ last[1].err # Null
        /\ \E id \in DOMAIN conns[c].outOps :
              conns[c].outOps[id].start <= last[1].start

\* C10: No two live outbound operations of a connection share a frame id:
\* send never enrols an operation under an id that is still in outOps, so
\* every send makes the number of pending operations grow by one.
C10_NoFrameIdReuse ==
    \A c \in Live : \A reqBody \in SendBodies :
        LET R == TChannelConnection_send(Cur, c, reqBody)
        IN /\ nextFrameId(conns[c].lastSentFrameId) \notin DOMAIN conns[c].outOps
           /\ Cardinality(DOMAIN R.conns[c].outOps)
                  = Cardinality(DOMAIN conns[c].outOps) + 1

\* C11: The frame id allocator wraps at the size of the id word: nextFrameId
\* returns (last + 1) modulo 2^IdBits (2^32 in the program), and the first
\* frame an out connection writes is an InitRequest with id 1 and flags 0.
C11_FrameIdWrapsAtWordSize ==
    /\ \A c \in Live :
          nextFrameId(conns[c].lastSentFrameId)
              = (conns[c].lastSentFrameId + 1) % (2 ^ IdBits)
    /\ \A i \in 1 .. Len(last) :
          (last[i].k = "write" /\ last[i].frame.type = "InitRequest")
          => (last[i].frame.id = 1 /\ last[i].frame.flags = 0)

\* C12: A CallRequest that arrives on an identified connection that is not
\* closing and whose arg1 names no registered endpoint gets a synthesized
\* handler that replies: the request is recorded in inOps under its frame
\* id and a handler is scheduled for it, whose reply is a CallResponse with
\* that id, code AppException and a 'no such operation' error.
C12_NoSuchOperationReplies ==
    \A c \in Live : \A frame \in RecvFrames :
        (/\ frame.type = "CallRequest"
         /\ frame.arg1 \notin DOMAIN chan.endpoints
         /\ ~conns[c].closing
         /\ conns[c].remoteName # NullName)
        => LET R == onSocketData(Cur, c, frame)
           IN /\ frame.id \in DOMAIN R.conns[c].inOps
              /\ \E uid \in DOMAIN R.conns[c].handlers :
                    /\ R.conns[c].inOps[frame.id].uid = uid
                    /\ R.conns[c].handlers[uid].state = "scheduled"
                    /\ LET W == OfKind(sendResponse(
                                    [R EXCEPT !.log = EmptyLog], c, uid,
                                    Error("no such operation"), Null, Null).log.out,
                                    "write")
                       IN /\ Len(W) = 1
                          /\ W[1].frame.type = "CallResponse"
                          /\ W[1].frame.id = frame.id
                          /\ W[1].frame.code = CodeAppException
                          /\ W[1].frame.arg1
                                = serializeError(Error("no such operation"))

\* the inbound operation uid of connection c still owns its record in inOps
OwnsRecord(conn, uid) ==
    /\ conn.handlers[uid].id \in DOMAIN conn.inOps
    /\ conn.inOps[conn.handlers[uid].id].uid = uid

\* C13: For each inbound operation at most one CallResponse is written. A
\* call of respond writes at most one frame; it writes only if the
\* operation has not responded before and still owns its record in inOps,
\* and afterwards it has responded, so that a second call does nothing. A
\* call made after the record left inOps (pruned by the sweeper, dropped by
\* a reset, or replaced by a newer CallRequest with the same id) writes
\* nothing and leaves inOps, with the record that replaced it, untouched.
C13_OneResponsePerOperation ==
    \A c \in Live : \A uid \in DOMAIN conns[c].handlers :
        \A err \in {Null, Error("app")} :
            LET conn == conns[c]
                R == sendResponse(Cur, c, uid, err, Str("r1"), Str("r2"))
                W == OfKind(R.log.out, "write")
                R2 == sendResponse([R EXCEPT !.log = EmptyLog], c, uid, err,
                                   Str("r1"), Str("r2"))
            IN /\ Len(W) <= 1
               /\ Len(W) = 1 =>
                     /\ ~conn.handlers[uid].responseSent
                     /\ OwnsRecord(conn, uid)
                     /\ W[1].frame.id = conn.handlers[uid].id
               /\ conn.handlers[uid].responseSent => R = Cur
               /\ ~OwnsRecord(conn, uid) =>
                     /\ W = <<>>
                     /\ R.conns[c].inOps = conn.inOps
                     /\ R.conns[c].inPending = conn.inPending
               /\ R.conns[c].handlers[uid].responseSent
               /\ R2 = [R EXCEPT !.log = EmptyLog]

\* C13 happens: a handler is about to respond for an operation whose record
\* was replaced by a newer CallRequest with the same frame id; its response
\* is discarded and the newer record stays
C13_Witness ==
    \E c \in Live : \E uid \in DOMAIN conns[c].handlers :
        LET conn == conns[c]
            h == conn.handlers[uid]
            R == sendResponse(Cur, c, uid, Null, Str("r1"), Str("r2"))
        IN /\ h.state = "running"
           /\ ~h.responseSent
           /\ ~conn.closing
           /\ h.id \in DOMAIN conn.inOps
           /\ conn.inOps[h.id].uid # uid
           /\ R.log.out = <<>>
           /\ R.conns[c].inOps = conn.inOps

\* C14: The CallResponse written by respond(err, res1, res2) carries the
\* request's frame id and the request's checksum type; with a falsy err its
\* code is OK and its arg1 is the request's arg1; with a truthy err its code
\* is AppException and its arg1 is the serialized err; arg2 and arg3 are
\* res1 and res2. Responding, with or without an error, does not reset the
\* connection: closing stays false, nothing is emitted, no sink is invoked,
\* and the other inbound and the outbound operations are untouched.
C14_ResponseFrame ==
    \A c \in Live : \A uid \in DOMAIN conns[c].handlers :
        \A err \in {Null, Error("app")} :
            LET conn == conns[c]
                h == conn.handlers[uid]
                R == sendResponse(Cur, c, uid, err, Str("r1"), Str("r2"))
            IN (~h.responseSent /\ OwnsRecord(conn, uid) /\ ~conn.closing)
               => /\ R.log.out =
                        <<[k |-> "write", conn |-> c,
                           frame |->
                               [type |-> "CallResponse", id |-> h.id,
                                flags |-> 0,
                                code |-> IF err = Null THEN CodeOK
                                         ELSE CodeAppException,
                                arg1 |-> IF err = Null THEN Str(h.arg1)
                                         ELSE [t |-> "json",
                                               v |-> [k \in {"$jsError"} |->
                                                   [name |-> "Error",
                                                    message |-> err.message]]],
                                arg2 |-> Str("r1"), arg3 |-> Str("r2"),
                                csum |-> h.checksumType]]>>
                  /\ ~R.conns[c].closing
                  /\ R.conns[c].inOps = MapDel(conn.inOps, {h.id})
                  /\ R.conns[c].outOps = conn.outOps
                  /\ R.conns[c].sock = conn.sock
                  /\ R.peers = peers
                  /\ \A d \in ConnIds \ {c} : R.conns[d] = conns[d]

\* C14 happens: a handler responded with an error; the AppException
\* response with the request's id and checksum type was written and the
\* connection is still up with another inbound operation pending
C14_Witness ==
    \E c \in Live : \E uid \in DOMAIN conns[c].handlers :
        /\ ~conns[c].closing
        /\ conns[c].handlers[uid].responseSent
        /\ conns[c].inOps # EmptyMap
        /\ Len(last) = 1
        /\ last[1].k = "write"
        /\ last[1].conn = c
        /\ last[1].frame.type = "CallResponse"
        /\ last[1].frame.code = CodeAppException
        /\ last[1].frame.id = conns[c].handlers[uid].id
        /\ last[1].frame.csum = conns[c].handlers[uid].checksumType
        /\ last[1].frame.csum = ChecksumNone

\* C15: A decode error reported by the frame parser of a connection that is
\* not closing is fatal for the connection: the connection is reset
\* (closing becomes true, 'reset' is emitted) and the sink of every pending
\* outbound operation is invoked with an error.
C15_ParseErrorResets ==
    \A c \in Live :
        ~conns[c].closing
        => LET R == onSocketData(Cur, c, ParseError)
           IN /\ R.conns[c].closing
              /\ \E i \in 1 .. Len(R.log.out) :
                    R.log.out[i] = EmitOf(c, "reset")
              /\ R.conns[c].outOps = EmptyMap
              /\ \A id \in DOMAIN conns[c].outOps :
                    \E i \in 1 .. Len(R.log.out) :
                        /\ R.log.out[i].k = "call"
                        /\ R.log.out[i].id = id
                        /\ R.log.out[i].err # Null

\* C16: quit() marks the channel destroyed and, for every connection in the
\* peer table, clears its timer, marks it closing, emits 'reset' on it,
\* invokes the sink of every outbound operation pending on it with the
\* error 'shutdown from quit', and ends its socket.
C16_QuitResetsPeers ==
    LET R == quit(Cur)
        list == getPeers(Cur)
    IN /\ R.chan.destroyed
       /\ \A j \in 1 .. Len(list) :
             LET c == list[j]
             IN /\ R.conns[c].closing
                /\ ~R.conns[c].timer
                /\ \E i \in 1 .. Len(R.log.out) :
                      R.log.out[i] = [k |-> "end", conn |-> c]
                /\ ~conns[c].closing =>
                      /\ \E i \in 1 .. Len(R.log.out) :
                            R.log.out[i] = EmitOf(c, "reset")
                      /\ \A id \in DOMAIN conns[c].outOps :
                            \E i \in 1 .. Len(R.log.out) :
                                R.log.out[i] =
                                    SinkCall(c, conns[c].outOps, id,
                                             Error("shutdown from quit"),
                                             Null, Null)

\* the connections quit found in the peer table: after quit they are the
\* closing connections still listed there (a reset removes a connection
\* from the table, quit does not)
QuitPeers ==
    {c \in Live : conns[c].closing
                  /\ \E h \in PeerKeys : \E i \in 1 .. Len(peers[h]) :
                        peers[h][i] = c}

AllQuitSocketsClosed ==
    /\ chan.serverSocket = "closed"
    /\ \A c \in QuitPeers : conns[c].sock = "closed"

\* C17: The callback passed to quit() is invoked at most once, not before
\* quit was called and the socket of every peer connection and the
\* listening socket have each reported close, and it has been invoked as
\* soon as all of them have.
C17_QuitCallbackOnce ==
    /\ chan.callbackCalls <= 1
    /\ chan.callbackCalls = 1 => (chan.quits = 1 /\ AllQuitSocketsClosed)
    /\ (chan.quits = 1 /\ AllQuitSocketsClosed) => chan.callbackCalls = 1

\* C17 happens: quit found a connection in the peer table, its socket and
\* the listening socket have closed, and the callback has run
C17_Witness ==
    /\ chan.quits = 1
    /\ chan.callbackCalls = 1
    /\ QuitPeers # {}
    /\ AllQuitSocketsClosed

\* every 'out' connection of the list comes before every 'in' connection
OutBeforeIn(cs, list) ==
    \A i \in 1 .. Len(list) : \A j \in 1 .. Len(list) :
        (cs[list[i]].direction = "out" /\ cs[list[j]].direction = "in") => i < j

\* C18: Each peer list holds all its 'out' connections before all its 'in'
\* connections; getPeer(hostPort) returns the head of the list, hence an
\* outbound connection whenever the list holds one, and null (0) when the
\* list is empty; removePeer takes out one occurrence of the connection and
\* keeps the rest in order.
C18_OutBeforeIn ==
    \A h \in PeerKeys :
        LET list == peers[h]
        IN /\ OutBeforeIn(conns, list)
           /\ getPeer(Cur, h) = IF list = <<>> THEN 0 ELSE list[1]
           /\ (\E i \in 1 .. Len(list) : conns[list[i]].direction = "out")
                 => conns[getPeer(Cur, h)].direction = "out"
           /\ \A c \in Live :
                 LET after == removePeer(Cur, h, c).peers[h]
                     at == indexOf(list, c)
                 IN IF at = 0 THEN after = list
                    ELSE /\ Len(after) = Len(list) - 1
                         /\ after = SubSeq(list, 1, at - 1)
                                      \o SubSeq(list, at + 1, Len(list))
                         /\ OutBeforeIn(conns, after)

\* C18 happens: a list holds an out connection followed by an in
\* connection, and getPeer returns the out connection
C18_Witness ==
    \E h \in PeerKeys :
        /\ Len(peers[h]) >= 2
        /\ conns[peers[h][1]].direction = "out"
        /\ conns[peers[h][Len(peers[h])]].direction = "in"
        /\ getPeer(Cur, h) = peers[h][1]

\* C19: Registering an endpoint name that is already in the registry is
\* rejected with an error and the handler registered first stays in effect;
\* for the channel's registry (TChannel.register) and for a router service
\* (TRouterService.register).
C19_RegisterRejectsRedefinition ==
    \A name \in DOMAIN chan.endpoints :
        LET fn == HandlerFns[chan.regs + 1]
            R == register(Cur, name, fn)
            T == TRouterService_register(chan.endpoints, name, fn)
        IN /\ R.log.threw # "none"
           /\ R.chan.endpoints[name] = chan.endpoints[name]
           /\ T.threw # "none"
           /\ T.endpoints[name] = chan.endpoints[name]

\* C20: Self-peering is forbidden: the peer table holds no connection under
\* the channel's own host:port and no connection has the channel's own
\* host:port as remoteAddr or as remoteName; addPeer and setPeer with the
\* own hostPort and the construction of a connection to it throw and leave
\* the peer table and the connections as they are, and an InitRequest that
\* announces the own hostPort fails and leaves the peer table and the
\* connection's remoteName as they are.
C20_NoSelfPeering ==
    /\ peers[LocalHostPort] = <<>>
    /\ \A c \in Live :
          /\ conns[c].remoteAddr # LocalHostPort
          /\ conns[c].remoteName # LocalHostPort
          /\ LET R == addPeer(Cur, LocalHostPort, c)
                 P == setPeer(Cur, LocalHostPort, c)
             IN /\ R.log.threw # "none" /\ R.peers = peers /\ R.conns = conns
                /\ P.log.threw # "none" /\ P.peers = peers /\ P.conns = conns
    /\ \A slot \in Free : \A direction \in {"in", "out"} :
          LET R == TChannelConnection(Cur, slot, direction, LocalHostPort)
          IN R.log.threw # "none" /\ R.peers = peers /\ R.conns = conns
    /\ \A c \in Live :
          conns[c].remoteName = NullName =>
              LET R == handleInitRequest(Cur, c,
                         [InitRequestFrame(1) EXCEPT !.hostPort = LocalHostPort])
              IN /\ R.log.threw # "none"
                 /\ R.peers = peers
                 /\ R.conns[c].remoteName = conns[c].remoteName


\* C21: channel.send throws, creating no connection and enrolling no
\* operation, when the channel is destroyed or options.host is missing;
\* otherwise it enrols exactly one operation, with timeout options.timeout,
\* on a connection of direction out to options.host: the one the channel
\* already has, or a newly dialled one.
C21_SendEnrolsOnOutConnection ==
    \A dest \in (DestHosts \ {LocalHostPort}) \cup {""} :
        \A t \in OptionTimeouts \ {0} : \A a1 \in SendArg1s :
            \A a2 \in Arg2s : \A a3 \in Arg3s :
                LET peer == IF dest = "" THEN 0 ELSE getPeer(Cur, dest)
                    R == TChannel_send(Cur, dest, buildRequest(t, a1, a2, a3),
                                       FreeSlot)
                    enrolled == OfKind(R.log.out, "enrol")
                IN IF chan.destroyed \/ dest = ""
                   THEN /\ R.log.threw # "none"
                        /\ R.conns = conns
                        /\ R.peers = peers
                        /\ enrolled = <<>>
                   ELSE (peer # 0 \/ FreeSlot # 0) =>
                        /\ R.log.threw = "none"
                        /\ Len(enrolled) = 1
                        /\ Len(enrolled) >= 1 =>
                              LET c == enrolled[1].conn
                                  id == enrolled[1].id
                              IN /\ R.conns[c].direction = "out"
                                 /\ R.conns[c].remoteAddr = dest
                                 /\ id \in DOMAIN R.conns[c].outOps
                                 /\ R.conns[c].outOps[id].timeout = t
                                 /\ c \in Live => c = peer


RECURSIVE Written(_, _)
\* the bytes of the items in order
Written(items, n) ==
    IF items = <<>> THEN <<>>
    ELSE ItemBytes(Head(items), n) \o Written(Tail(items), n)

\* how many of the items written have been delivered to their last byte
Arrived ==
    Cardinality({n \in 1 .. Len(wire.sent) :
        Len(Written(SubSeq(wire.sent, 1, n), wire.width)) <= Len(wire.delivered)})

\* what the reader emits for an item: an error for a length of zero, the
\* frame for a payload under its length
ReaderEvent(item, n) ==
    IF item.k = "zero"
    THEN [k |-> "error", chunk |-> <<>>,
          err |-> [type |-> "tchannel.zero-length-frame"]]
    ELSE [k |-> "frame", chunk |-> ItemBytes(item, n),
          frame |-> [length |-> n + Len(item.payload), payload |-> item.payload]]

\* C22: in the chunk reader, a length of zero read in PendingLength emits
\* exactly one zero-length-frame error, takes exactly the length field off
\* the buffer and leaves the reader in PendingLength, and the frames around
\* it are delivered as if it had not been there: whatever the chunks, the
\* reader has emitted one event per item that has arrived, in order, and
\* holds the bytes of the item that has not.
C22_ZeroLengthFrame ==
    (wire.unit = "reader" /\ \E i \in 1 .. Len(wire.sent) : wire.sent[i].k = "zero")
    => /\ ~wire.hung
       /\ wire.out = [i \in 1 .. Arrived |-> ReaderEvent(wire.sent[i], wire.width)]
       /\ Written(SubSeq(wire.sent, 1, Arrived), wire.width) \o wire.m.buffer
              = wire.delivered
       /\ wire.m.buffer = <<>> =>
              /\ wire.m.state = "PendingLength"
              /\ wire.m.expecting = wire.width

\* a length of zero and then a payload have gone through a reader whose
\* length field has two bytes
C22_Witness ==
    /\ wire.unit = "reader"
    /\ wire.width = 2
    /\ wire.script = <<>>
    /\ wire.socket = <<>>
    /\ Len(wire.sent) = 2
    /\ wire.sent[1].k = "zero"
    /\ wire.sent[2].k = "blob"
    /\ Len(wire.out) = 2
    /\ wire.out[1].k = "error"
    /\ wire.out[2].k = "frame"


\* the run has written only well-formed frames so far
WellFormedRun ==
    /\ wire.unit \in {"parser", "reader"}
    /\ \A i \in 1 .. Len(wire.sent) : wire.sent[i].k \in {"frame", "blob"}

\* what a fresh parser or reader of the run makes of the delivered bytes
\* handed over in one chunk
AllAtOnce ==
    IF wire.unit = "parser"
    THEN Only({[m |-> R.parser, out |-> R.out] :
                  R \in {ChunkParser_execute(ChunkParser, wire.delivered)}})
    ELSE Only({[m |-> R.reader, out |-> R.out] :
                  R \in {ChunkReader_transform(
                             ChunkReader(IF wire.width = 2 THEN 0 ELSE wire.width),
                             wire.delivered)}})

\* C23: for a stream of well-formed frames, in whatever chunks the bytes
\* were delivered, ChunkParser.execute and ChunkReader._transform have
\* emitted what one call with all the delivered bytes emits: one frame per
\* frame that has arrived whole, in wire order, each with exactly the bytes
\* written for it; and the reader holds exactly the delivered bytes of the
\* frame that is not complete yet.
C23_PartitionInvariant ==
    WellFormedRun
    => /\ ~wire.hung
       /\ wire.out = AllAtOnce.out
       /\ wire.m = AllAtOnce.m
       /\ Len(wire.out) = Arrived
       /\ \A i \in 1 .. Len(wire.out) :
             /\ wire.out[i].k = "frame"
             /\ wire.out[i].chunk = ItemBytes(wire.sent[i], wire.width)
       /\ Written(SubSeq(wire.sent, 1, Arrived), wire.width) \o wire.m.buffer
              = wire.delivered

\* two frames written, the first delivered whole and emitted, the second
\* delivered in part and held by the parser, the rest still on the socket
C23_Witness ==
    /\ WellFormedRun
    /\ wire.unit = "parser"
    /\ Len(wire.sent) = 2
    /\ Len(wire.out) = 1
    /\ Len(wire.m.buffer) > 4
    /\ wire.m.state = "Seeking"
    /\ wire.socket # <<>>


\* the items of a parser run so far are frames, exact or with a size field
\* raised over trailing bytes
FramedRun ==
    /\ wire.unit = "parser"
    /\ \A i \in 1 .. Len(wire.sent) : wire.sent[i].k \in {"frame", "extra"}

\* C24: a slice whose declared size is larger than 16 plus what its body
\* grammar consumes yields an ExtraFrameData error carrying the declared
\* size and the count of the bytes left over (declared size - 16 - body
\* bytes), and no frame; a slice whose body consumes exactly size - 16
\* bytes yields a frame and no error.
C24_ExtraFrameData ==
    FramedRun
    => /\ Len(wire.out) = Arrived
       /\ \A i \in 1 .. Len(wire.out) :
             IF wire.sent[i].k = "extra"
             THEN /\ wire.out[i].k = "error"
                  /\ wire.out[i].err =
                         ExtraFrameDataError(
                             Len(Frame_write(wire.sent[i].frame)) + wire.sent[i].n,
                             (Len(Frame_write(wire.sent[i].frame)) + wire.sent[i].n)
                                 - 16 - Len(Body_write(wire.sent[i].frame.body)))
                  /\ wire.out[i].err.trailing = wire.sent[i].n
                  /\ wire.out[i].offset = Len(Frame_write(wire.sent[i].frame))
             ELSE /\ wire.out[i].k = "frame"
                  /\ wire.out[i].frame.id = wire.sent[i].frame.id

\* a CallResponse with trailing bytes was delivered and reported, and the
\* exact frame written after it was emitted
C24_Witness ==
    /\ FramedRun
    /\ Len(wire.sent) = 2
    /\ wire.sent[1].k = "extra"
    /\ wire.sent[2].k = "frame"
    /\ Len(wire.out) = 2
    /\ wire.out[1].k = "error"
    /\ wire.out[1].err.type = "extra-frame-data"
    /\ wire.out[2].k = "frame"


\* frame g carries what frame f carries: id, type, flags and the fields of
\* the body, with a checksum of the same type that verifies
SameFrame(f, g) ==
    /\ g.id = f.id
    /\ g.flags = f.flags
    /\ g.body.type = f.body.type
    /\ IF f.body.type \in {TypeInitRequest, TypeInitResponse}
       THEN g.body = f.body
       ELSE /\ [g.body EXCEPT !.csum = f.body.csum] = f.body
            /\ g.body.csum.type = f.body.csum.type
            /\ Checksum_verify(g.body.csum, g.body.arg1, g.body.arg2,
                               g.body.arg3) = NoError

\* C25: for every frame the sender has written, the size field holds 16
\* plus the length of the encoded body, which is the number of bytes
\* written, and Frame.read of the bytes returns, without an error and
\* having consumed all of them, a frame with the same id, type, flags and
\* body fields and a checksum that verifies; and that is the frame the
\* parser emits for the slice.
C25_EncodeDecodeInverse ==
    \A i \in 1 .. Len(wire.sent) :
        wire.sent[i].k = "frame"
        => \E bytes \in {Frame_write(wire.sent[i].frame)} :
           \E res \in {Frame_read(bytes, 0)} :
              /\ readUIntBE(bytes, 0, 4)
                     = 16 + Len(Body_write(wire.sent[i].frame.body))
              /\ readUIntBE(bytes, 0, 4) = Len(bytes)
              /\ res.err = NoError
              /\ res.offset = Len(bytes)
              /\ SameFrame(wire.sent[i].frame, res.value)
              /\ (FramedRun /\ i <= Len(wire.out) /\ wire.sent[1].k = "frame")
                     => wire.out[i] = [k |-> "frame", chunk |-> bytes,
                                       frame |-> res.value]

\* a CallRequest under a FarmHash32 checksum and a CallResponse under a
\* CRC32 checksum were written, delivered and decoded
C25_Witness ==
    /\ wire.unit = "parser"
    /\ Len(wire.sent) = 2
    /\ wire.sent[1].k = "frame"
    /\ wire.sent[1].frame.body.type = TypeCallRequest
    /\ wire.sent[2].k = "frame"
    /\ wire.sent[2].frame.body.type = TypeCallResponse
    /\ wire.sent[2].frame.body.csum.type = ChecksumCRC32
    /\ Len(wire.out) = 2
    /\ wire.out[1].k = "frame"
    /\ wire.out[1].frame.body.arg1 = Ascii.echo
    /\ wire.out[2].k = "frame"
    /\ wire.out[2].frame.id = 258


\* C26: Error serialization round-trips: what deserialize makes of the
\* serialized error in arg1 of a CallResponse the channel writes under
\* CodeAppException is an error object with the message of the error the
\* handler gave (the $jsError envelope is unwrapped), and a bare string
\* passes through serialize and through deserialize unchanged.
C26_ErrorRoundTrip ==
    /\ \A s \in {Str("busy")} :
          serializeError(s) = s /\ deserializeError(s) = s
    /\ \A i \in 1 .. Len(last) :
          (/\ last[i].k = "write"
           /\ last[i].frame.type = "CallResponse"
           /\ last[i].frame.code = CodeAppException)
          => \E e \in {Error("app"), Error("no such operation")} :
                /\ last[i].frame.arg1 = serializeError(e)
                /\ deserializeError(last[i].frame.arg1) = e


\* the handshake of the link is complete
HandshakeDone ==
    /\ link.dialer # "none"
    /\ link.toFar = <<>> /\ link.toNear = <<>>
    /\ conns[1].remoteName = "B"
    /\ Swap(link.far.conns[1].remoteName) = "A"
    /\ link.identified = [near |-> 1, far |-> 1]
    /\ IF link.dialer = "near"
       THEN \E i \in 1 .. Len(link.far.peers[Swap("A")]) :
               link.far.peers[Swap("A")][i] = 1
       ELSE \E i \in 1 .. Len(peers["B"]) : peers["B"][i] = 1
    /\ link.crossed = <<TypeInitRequest, TypeInitResponse>>

\* C27: once a channel has dialled the other over a link that delivers
\* every written byte in order and does not fail, eventually and from then
\* on both connections have remoteName set to the host:port of the other
\* channel, each channel has emitted 'identified' once, the accepting
\* channel holds its connection in the peer table under the host:port of
\* the dialer, and one InitRequest followed by one InitResponse is all that
\* has crossed the link.
C27_HandshakeCompletes == (link.dialer # "none") ~> [](HandshakeDone)

\* the first channel dialled and the handshake is complete
C27_Witness == HandshakeDone /\ link.dialer = "near" /\ conns[1].direction = "out"


\* C28: The dispatch of a CallRequest to a registered endpoint runs no
\* handler and writes nothing: it stores the operation record in inOps
\* under the frame id and leaves the handler scheduled.  A handler is run
\* by a step of its own, and one that responds at once when it is run then
\* finds its own record: the response carries the frame id, is written and
\* takes the record out of inOps.
C28_HandlerDeferred ==
    /\ \A i \in 1 .. Len(last) :
          last[i].k = "run"
          => \A j \in 1 .. Len(last) :
                ~(last[j].k = "emit" /\ last[j].name = "endpoint")
    /\ \A c \in Live :
       \A item \in {f \in RecvFrames : f.type = "CallRequest"} :
          (/\ ~conns[c].closing
           /\ conns[c].remoteName # NullName
           /\ item.arg1 \in DOMAIN chan.endpoints)
          => LET R == onSocketData(Cur, c, item)
                 new == DOMAIN R.conns[c].handlers \ DOMAIN conns[c].handlers
             IN /\ \A i \in 1 .. Len(R.log.out) :
                      R.log.out[i].k \notin {"run", "write"}
                /\ Cardinality(new) = 1
                /\ \A uid \in new :
                      /\ R.conns[c].handlers[uid].state = "scheduled"
                      /\ item.id \in DOMAIN R.conns[c].inOps
                      /\ R.conns[c].inOps[item.id].uid = uid
                      /\ LET T == sendResponse(
                                      runHandler([R EXCEPT !.log = EmptyLog],
                                                 c, uid),
                                      c, uid, Null, Str("r1"), Str("r2"))
                         IN /\ Len(T.log.out) = 2
                            /\ T.log.out[1].k = "run"
                            /\ T.log.out[1].uid = uid
                            /\ T.log.out[2].k = "write"
                            /\ T.log.out[2].frame.type = "CallResponse"
                            /\ T.log.out[2].frame.id = item.id
                            /\ item.id \notin DOMAIN T.conns[c].inOps

\* a handler that was run in a step of its own has responded, and its
\* response was written under the id of its frame
C28_Witness ==
    \E c \in Live : \E uid \in DOMAIN conns[c].handlers :
        /\ conns[c].handlers[uid].state = "running"
        /\ conns[c].handlers[uid].responseSent
        /\ Len(last) = 1
        /\ last[1].k = "write"
        /\ last[1].frame.type = "CallResponse"
        /\ last[1].frame.id = conns[c].handlers[uid].id
        /\ conns[c].handlers[uid].id \notin DOMAIN conns[c].inOps


\* the inbound operations of connection c that are older than the
\* channel's serverTimeoutDefault
Overdue(c) ==
    {id \in DOMAIN conns[c].inOps :
        now - conns[c].inOps[id].start > serverTimeoutDefault}

\* C29: A sweep of a connection that is not closing and carries no timeout
\* mark removes from inOps every operation older than serverTimeoutDefault
\* and keeps every younger one.  The walk over inOps calls no sink, writes
\* no frame, destroys nothing and leaves lastTimeoutTime and outOps as they
\* are, so a sweep that only prunes inbound operations logs nothing, leaves
\* lastTimeoutTime at zero, and the sweep after it does not destroy the
\* socket.
C29_InOpsPruning ==
    \A c \in Live :
        (~conns[c].closing /\ conns[c].lastTimeoutTime = 0)
        => LET R == onTimeoutCheck([Cur EXCEPT !.conns[c].timer = FALSE], c)
               W == checkInOpsForTimeout(Cur, c,
                                         SortedSeq(DOMAIN conns[c].inOps))
           IN /\ \A id \in Overdue(c) : id \notin DOMAIN R.conns[c].inOps
              /\ \A id \in DOMAIN conns[c].inOps :
                    now - conns[c].inOps[id].start < serverTimeoutDefault
                    => /\ id \in DOMAIN R.conns[c].inOps
                       /\ R.conns[c].inOps[id] = conns[c].inOps[id]
              /\ DOMAIN R.conns[c].inOps \subseteq DOMAIN conns[c].inOps
              /\ W.log = EmptyLog
              /\ W.conns[c].lastTimeoutTime = conns[c].lastTimeoutTime
              /\ W.conns[c].outOps = conns[c].outOps
              /\ W.conns[c].sock = conns[c].sock
              /\ DOMAIN W.conns[c].inOps = DOMAIN R.conns[c].inOps
              /\ conns[c].outOps = EmptyMap
                    => /\ R.log = EmptyLog
                       /\ R.conns[c].lastTimeoutTime = 0
                       /\ R.conns[c].timer
                       /\ onTimeoutCheck([R EXCEPT !.conns[c].timer = FALSE],
                                         c).log.out = <<>>

\* the sweep timer of a connection is set, the connection holds an inbound
\* operation older than serverTimeoutDefault and a younger one, and no
\* outbound operation
C29_Witness ==
    \E c \in Live :
        /\ ~conns[c].closing /\ conns[c].lastTimeoutTime = 0
        /\ conns[c].timer
        /\ conns[c].outOps = EmptyMap
        /\ Overdue(c) # {}
        /\ DOMAIN conns[c].inOps \ Overdue(c) # {}
        /\ DOMAIN onTimeoutCheck([Cur EXCEPT !.conns[c].timer = FALSE],
                                 c).conns[c].inOps
               = DOMAIN conns[c].inOps \ Overdue(c)


\* C30: A frame header that declares a size below 16 is rejected: once the
\* parser holds the length prefix and as many bytes as the header declares,
\* execute has returned having reported an error for the slice of the
\* declared size; and while it has been handed bytes of the header only,
\* every execute call has returned and no frame was emitted.
C30_SmallSizeRejected ==
    (/\ wire.unit = "parser"
     /\ Len(wire.sent) >= 1
     /\ wire.sent[1].k = "small"
     /\ Len(wire.delivered) >= 4
     /\ Len(wire.delivered) >= wire.sent[1].size)
    => /\ Len(wire.out) >= 1
       /\ wire.out[1].k = "error"
       /\ wire.out[1].chunk
              = slice(ItemBytes(wire.sent[1], 4), 0, wire.sent[1].size)
       /\ Len(wire.delivered) <= 16
             => /\ ~wire.hung
                /\ \A i \in 1 .. Len(wire.out) : wire.out[i].k # "frame"


\* the keys of the pairs are host_port and process_name, each once
RequiredKeysOnce(pairs) ==
    \A key \in {InitKeys.host_port, InitKeys.process_name} :
        Cardinality({i \in 1 .. Len(pairs) : pairs[i][1] = key}) = 1

\* C31: An Init frame, request or response, whose pairs are not host_port
\* and process_name each exactly once (a key is missing, a key occurs
\* twice, also after an empty value, or a key is unknown) yields a decode
\* error and no frame; one with both keys once yields a frame whose body
\* carries the two values.
C31_InitKeysRequired ==
    (/\ wire.unit = "parser"
     /\ Len(wire.sent) >= 1
     /\ wire.sent[1].k = "pairs"
     /\ Len(wire.out) >= 1)
    => IF RequiredKeysOnce(wire.sent[1].pairs)
       THEN /\ wire.out[1].k = "frame"
            /\ wire.out[1].frame.body
                   = InitBody(wire.sent[1].type, VERSION,
                              wire.sent[1].pairs[1][2], wire.sent[1].pairs[2][2])
       ELSE wire.out[1].k = "error"


\* how often the sink of the outbound operation id of connection c is
\* invoked in the log out
SinkCalls(out, c, id) ==
    Cardinality({i \in 1 .. Len(out) :
                    out[i].k = "call" /\ out[i].conn = c /\ out[i].id = id})

\* C32: Every outbound operation that is pending has its sink invoked
\* exactly once: no step invokes it twice, and when the socket of its
\* connection closes the sink of every operation still pending is invoked,
\* once, and the operation leaves outOps, also after the channel was quit
\* while the operation was pending.
C32_SinkExactlyOnce ==
    \A c \in Live :
        /\ \A i \in 1 .. Len(last) : \A j \in 1 .. Len(last) :
              (/\ last[i].k = "call" /\ last[j].k = "call"
               /\ last[i].conn = last[j].conn /\ last[i].id = last[j].id)
              => i = j
        /\ conns[c].sock \in {"open", "ended", "destroyed"}
           => LET R == socket_onClose(Cur, c)
              IN /\ R.conns[c].outOps = EmptyMap
                 /\ \A id \in DOMAIN conns[c].outOps :
                       SinkCalls(R.log.out, c, id) = 1


\* C33: The pending counters track the tables: on every connection
\* outPending is the number of records in outOps and inPending is the
\* number of records in inOps, and neither is negative.
C33_PendingCountersTrack ==
    \A c \in Live :
        /\ conns[c].outPending = Cardinality(DOMAIN conns[c].outOps)
        /\ conns[c].inPending = Cardinality(DOMAIN conns[c].inOps)
        /\ conns[c].outPending >= 0
        /\ conns[c].inPending >= 0


\* how often connection c occurs in the peer table
PeerOccurrences(P, c) ==
    Cardinality({<<h, i>> \in PeerKeys \X (1 .. MaxConns + MaxCalls + 2) :
                    i <= Len(P[h]) /\ P[h][i] = c})

\* C34: A connection occurs at most once in the whole peer table, and after
\* its reset it does not occur in it at all.
C34_PeerOnce ==
    \A c \in Live :
        /\ PeerOccurrences(peers, c) <= 1
        /\ ~conns[c].closing
           => PeerOccurrences(resetAll(Cur, c, Error("socket closed")).peers, c) = 0


\* C35: ChunkParser.execute terminates for every chunk it is handed: every
\* call made in the run has returned.
C35_ExecuteTerminates == wire.unit = "parser" => ~wire.hung


\* C36: After quit every connection of the channel whose socket was open,
\* in the peer table or not, is closing, has no armed sweep timer and has
\* had its socket ended.
C36_QuitClosesEveryConnection ==
    chan.quits = 0
    => LET R == quit(Cur)
       IN \A c \in Live :
             conns[c].sock = "open"
             => /\ R.conns[c].closing
                /\ ~R.conns[c].timer
                /\ R.conns[c].sock = "ended"
                /\ \E i \in 1 .. Len(R.log.out) :
                      R.log.out[i] = [k |-> "end", conn |-> c]


\* the sink calls a handler result logs for the operation id of connection c
SinkCallsOf(out, c, id) ==
    SelectSeq(out, LAMBDA e : e.k = "call" /\ e.conn = c /\ e.id = id)

\* C37: On an identified connection a CallResponse whose id matches a live
\* outbound operation completes it with a null error if and only if its
\* code is OK, and an Error frame whose id matches completes it with a
\* non-null error and null results whatever its code.
C37_ErrorReflectsFrame ==
    \A c \in Live : \A frame \in RecvFrames :
        (/\ frame.type \in {"CallResponse", "Error"}
         /\ ~conns[c].closing
         /\ conns[c].remoteName # NullName
         /\ frame.id \in DOMAIN conns[c].outOps)
        => LET calls == SinkCallsOf(onSocketData(Cur, c, frame).log.out, c,
                                    frame.id)
           IN /\ Len(calls) = 1
              /\ frame.type = "CallResponse"
                 => (calls[1].err = Null <=> frame.code = CodeOK)
              /\ frame.type = "Error"
                 => /\ calls[1].err # Null
                    /\ calls[1].arg2 = Null
                    /\ calls[1].arg3 = Null


(* ------------------------------- router --------------------------------- *)
ServiceNames == {"svc", "other"}
EndpointNames == Endpoints \cup {"missing"}
\* what a caller passes as handler: a function or something else
HandlerValues == {HandlerFns[k] : k \in 1 .. Len(HandlerFns)} \cup {"notAFunction"}

\* new TRouterService(name)
TRouterService(name) == [name |-> name, endpoints |-> EmptyMap]

\* TRouterService.prototype.register for any handler value: the existing
\* endpoint is looked at first, then the type of the handler
TRouterService_registerValue(endpoints, name, handler) ==
    IF name \in DOMAIN endpoints
    THEN [endpoints |-> endpoints, threw |-> "EndpointAlreadyDefinedError"]
    ELSE IF handler = "notAFunction"
    THEN [endpoints |-> endpoints, threw |-> "Error"]
    ELSE TRouterService_register(endpoints, name, handler)

\* TRouter.prototype.registerService: the services afterwards and the error
\* thrown
TRouter_registerService(services, service, handler) ==
    IF service \in DOMAIN services
    THEN [services |-> services, threw |-> "ServiceAlreadyDefinedError"]
    ELSE [services |-> MapPut(services, service, handler), threw |-> "none"]

\* TRouter.prototype.registerEndpoint, also installed as register
TRouter_registerEndpoint(services, service, endpoint, handler) ==
    IF service \notin DOMAIN services
    THEN [services |-> TRouter_registerService(services, service,
                                               TRouterService(service)).services,
          threw |-> "ServiceAlreadyDefinedError"]
    ELSE LET T == TRouterService_registerValue(services[service].endpoints,
                                               endpoint, handler)
         IN [services |-> [services EXCEPT ![service].endpoints = T.endpoints],
             threw |-> T.threw]

\* the router whose one service carries the endpoints registered so far;
\* no service before the first registration
RouterServices ==
    IF chan.endpoints = EmptyMap THEN EmptyMap
    ELSE MapPut(EmptyMap, "svc", [name |-> "svc", endpoints |-> chan.endpoints])

\* C38: A router registration call that throws leaves the router unchanged
\* (registerService for an existing service, a service's register for an
\* existing endpoint or a handler that is no function, register /
\* registerEndpoint whenever it throws), and register for an existing
\* service and a new endpoint with a function handler registers it without
\* throwing.
C38_ThrowingRegistrationChangesNothing ==
    \A service \in ServiceNames, endpoint \in EndpointNames,
       handler \in HandlerValues :
        LET S == TRouter_registerService(RouterServices, service,
                                         TRouterService(service))
            R == TRouter_registerEndpoint(RouterServices, service, endpoint,
                                          handler)
        IN /\ S.threw # "none" => S.services = RouterServices
           /\ service \in DOMAIN RouterServices
              => LET T == TRouterService_registerValue(
                              RouterServices[service].endpoints, endpoint,
                              handler)
                 IN T.threw # "none"
                    => T.endpoints = RouterServices[service].endpoints
           /\ R.threw # "none" => R.services = RouterServices
           /\ (/\ service \in DOMAIN RouterServices
               /\ endpoint \notin DOMAIN RouterServices[service].endpoints
               /\ handler # "notAFunction")
              => /\ R.threw = "none"
                 /\ R.services[service].endpoints[endpoint] = handler


\* C39: Once the step that set a connection's closing flag has finished,
\* the connection's inOps and outOps are empty and stay empty: closing
\* never returns to false and no operation is left in, or later enrolled
\* in, the tables of a closed connection.
C39_ClosedTablesEmpty ==
    \A c \in Live :
        conns[c].closing
        => /\ conns[c].inOps = EmptyMap
           /\ conns[c].outOps = EmptyMap


\* C40: When a chunk holds several frames and the dispatch of an earlier
\* one resets the connection, no later frame or parser error of that chunk
\* or of a later chunk is dispatched: when the loop of execute goes on
\* with the rest of the chunk, and when the next chunk arrives, the
\* connections (handlers, outOps, remoteName), the peer table, the channel
\* and the effects stay those the resetting frame left.
C40_NoDispatchAfterReset ==
    \A c \in Live :
        ~conns[c].closing
        => \A f1 \in RecvFrames \cup {ParseError} :
              \A R1 \in {onSocketData(Cur, c, f1)} :
                 R1.conns[c].closing
                 => \A f2 \in RecvFrames \cup {ParseError} :
                       /\ parser_executeAll(R1, c, <<f2>>) = R1
                       /\ onSocketData(R1, c, f2) = R1

\* a connection with a pending outbound operation, a frame that resets it
\* and a CallResponse that would have completed the operation had it come
\* first: in one chunk, in this order, the operation ends with the reset's
\* error only
C40_Witness ==
    \E c \in Live : \E f1, f2 \in RecvFrames :
        /\ ~conns[c].closing
        /\ f2.type = "CallResponse"
        /\ f2.id \in DOMAIN conns[c].outOps
        /\ Len(SinkCallsOf(onSocketData(Cur, c, f2).log.out, c, f2.id)) = 1
        /\ onSocketData(Cur, c, f1).conns[c].closing
        /\ LET R == onSocketDataAll(Cur, c, <<f1, f2>>)
               calls == SinkCallsOf(R.log.out, c, f2.id)
           IN /\ R.conns[c].closing
              /\ R.conns[c].outOps = EmptyMap
              /\ Len(calls) = 1
              /\ calls[1].err # Null

====
